---- MODULE Spec2Model ----
(***************************************************************************)
(* Model of the schedule bot's ScheduleClient (src/main.py): the raw       *)
(* response cache of _get_text, the parsed-schedule cache with its lazy    *)
(* pruning, the three client operations run as concurrent asyncio tasks,   *)
(* and the week-page parser of get_week_schedule.                          *)
(*                                                                         *)
(* Texts.  A text that the code searches for substrings (the #dateweek     *)
(* text, a time string) is a sequence of one-character strings.  Cyrillic  *)
(* letters are written letter for letter in Latin:                         *)
(*   n=н e=е c=ч t=т o=ё a=а y=я d=д l=л                                   *)
(* so "нечет" is <<n,e,c,e,t>> and "четн" is <<c,e,t,n>>.  A text that the *)
(* code only compares as a whole or tests for emptiness (a subject, a      *)
(* room, a teacher name, a tail's text) is a sequence of words, the way    *)
(* get_text(" ", strip=True) joins the text nodes of an element.  All      *)
(* texts are lower case.                                                   *)
(***************************************************************************)
EXTENDS Integers, Sequences, FiniteSets, TLC

VARIABLES
    now,            \* asyncio loop time, in seconds
    ttlCfg,         \* ScheduleClient._parsed_cache_ttl (SCHEDULE_PARSED_CACHE_TTL)
    maxCfg,         \* ScheduleClient._parsed_cache_max (SCHEDULE_PARSED_CACHE_MAX)
    rawCache,       \* ScheduleClient._cache: sequence of [key, ts, text] in dict order
                    \* (with got, the time the response arrived)
    parsedCache,    \* ScheduleClient._parsed_cache: sequence of [key, ts, result] in dict
                    \* order (with fetched, the arrival time of the response behind it)
    institutesCache,\* ScheduleClient._institutes_cache
    groupsCache,    \* ScheduleClient._groups_cache
    tasks,          \* the asyncio tasks running client operations
    calls,          \* number of operations started so far
    ticks,          \* number of clock advances so far
    lastEvicted,    \* entries the most recent capacity eviction removed
    pPage, pDate, pOut, \* parser harness: a week page, a requested date, the parse
    fnIn, fnOut,        \* function harness: a function with its arguments, its value
    fsm,            \* the dispatcher's FSM storage: per user [state, data]
    store,          \* UserSettingsStore._data: per user the settings dict
    adminUserId,    \* ADMIN_USER_ID
    last,           \* the update handled last: its sender, message, handler and
                    \* what the handler sent
    fsmContext,     \* the fsm_context table of MySQLStorage: fsm_key -> row
    fsmSet,         \* per StorageKey, what set_state and set_data were handed last
    dbOp,           \* the MySQLStorage call made last, with its result
    pool,           \* Database._pool: whether it is there, the connections acquired
    dbTasks         \* the tasks calling Database.execute/fetchone/fetchall

vars == <<now, ttlCfg, maxCfg, rawCache, parsedCache, institutesCache, groupsCache,
          tasks, calls, ticks, lastEvicted, pPage, pDate, pOut, fnIn, fnOut,
          fsm, store, adminUserId, last, fsmContext, fsmSet, dbOp,
          pool, dbTasks>>

clientVars == <<now, ttlCfg, maxCfg, rawCache, parsedCache, institutesCache,
                groupsCache, tasks, calls, ticks, lastEvicted>>

botVars == <<fsm, store, adminUserId, last>>

poolVars == <<pool, dbTasks>>

dbVars == <<fsmContext, fsmSet, dbOp, poolVars>>

\* what the client's actions leave alone
parseVars == <<pPage, pDate, pOut, fnIn, fnOut, botVars, dbVars>>

----------------------------------------------------------------------------
(* Generic helpers *)

\* Python's `p in s` for strings: p occurs in s as a contiguous run.
Contains(s, p) ==
    \E i \in 0..(Len(s) - Len(p)) : SubSeq(s, i + 1, i + Len(p)) = p

RECURSIVE Flatten(_)
Flatten(ss) == IF ss = <<>> THEN <<>> ELSE Head(ss) \o Flatten(Tail(ss))

Range(s) == { s[i] : i \in 1..Len(s) }

----------------------------------------------------------------------------
(* Week parity from the page: get_week_schedule, lines 247-256 *)

KwNechet  == <<"n", "e", "c", "e", "t">>
KwNechyot == <<"n", "e", "c", "o", "t">>
KwChetn   == <<"c", "e", "t", "n">>
KwChyotn  == <<"c", "o", "t", "n">>

\* week_text: the #dateweek element's text, "" when the element is missing.
week_text(page) == IF page.hasWeek THEN page.weekText ELSE <<>>

page_is_odd_week(page) ==
    IF Contains(week_text(page), KwNechet) \/ Contains(week_text(page), KwNechyot)
    THEN TRUE
    ELSE IF Contains(week_text(page), KwChetn) \/ Contains(week_text(page), KwChyotn)
         THEN FALSE
         ELSE FALSE

is_odd_week(page) == ~page_is_odd_week(page)

----------------------------------------------------------------------------
(* _parse_time, lines 336-344 *)

Digits == {"0", "1", "2", "3", "4", "5", "6", "7", "8", "9"}

DigitVal(c) ==
    CASE c = "0" -> 0 [] c = "1" -> 1 [] c = "2" -> 2 [] c = "3" -> 3 [] c = "4" -> 4
      [] c = "5" -> 5 [] c = "6" -> 6 [] c = "7" -> 7 [] c = "8" -> 8 [] c = "9" -> 9

IsSpace(c) == c \in {" ", "\t", "\n"}

RECURSIVE LStrip(_)
LStrip(s) == IF s # <<>> /\ IsSpace(Head(s)) THEN LStrip(Tail(s)) ELSE s

RECURSIVE RStrip(_)
RStrip(s) ==
    IF s # <<>> /\ IsSpace(s[Len(s)]) THEN RStrip(SubSeq(s, 1, Len(s) - 1)) ELSE s

Strip(s) == RStrip(LStrip(s))

NoTime == [ok |-> FALSE, h |-> 0, m |-> 0]

\* re.match(r"^(\d{1,2}):(\d{2})$", value.strip()), then the range check.
parse_time(value) ==
    LET v == Strip(value)
        n == Len(v)
        shape == /\ n \in {4, 5}
                 /\ v[n - 2] = ":"
                 /\ \A i \in (1..n) \ {n - 2} : v[i] \in Digits
        h == IF n = 5 THEN 10 * DigitVal(v[1]) + DigitVal(v[2]) ELSE DigitVal(v[1])
        mm == 10 * DigitVal(v[n - 1]) + DigitVal(v[n])
    IN  IF ~shape THEN NoTime
        ELSE IF ~(0 <= h /\ h <= 23 /\ 0 <= mm /\ mm <= 59) THEN NoTime
        ELSE [ok |-> TRUE, h |-> h, m |-> mm]

----------------------------------------------------------------------------
(* Lesson extraction inside one tail: get_week_schedule, lines 289-325.     *)
(* A tail is [week, nodes]; week is the tail's class (all, odd, even) and   *)
(* nodes are its child elements in document order, each                     *)
(* [cls, words, teachers]: cls is pred (subject), info, aud or text, words  *)
(* the element's own text and teachers the texts of its ?prep= links.       *)

Dash == <<"DASH">>              \* the placeholder "—"
FreeMarker == <<"svobodno">>    \* "свободно"

WordsWithLekc  == {"lekciya"}
WordsWithPrakt == {"praktika"}
WordsWithLab   == {"laboratornaya", "labutin"}

\* get_text(" ", strip=True): the element's text nodes, the empty ones dropped
NodeText(n) == SelectSeq(n.teachers, LAMBDA t : t # "") \o n.words

TailText(tail) == Flatten([i \in 1..Len(tail.nodes) |-> NodeText(tail.nodes[i])])

extract_lesson_kind(text) ==
    IF Range(text) \cap WordsWithLekc # {} THEN "lekciya"
    ELSE IF Range(text) \cap WordsWithPrakt # {} THEN "praktika"
    ELSE IF Range(text) \cap WordsWithLab # {} THEN "laba"
    ELSE ""

\* re.search(r"подгруппа\s*(\d+)", text.lower()): the leftmost match.
extract_subgroup(text) ==
    LET hits == { i \in 1..(Len(text) - 1) :
                    text[i] = "podgruppa" /\ text[i + 1] \in Digits }
    IN  IF hits = {} THEN <<>>
        ELSE LET i == CHOOSE k \in hits : \A j \in hits : k <= j
             IN  <<"podgruppa", text[i + 1]>>

\* el.find_previous_sibling("div", class_="class-info"): index or 0.
find_previous_info(nodes, i) ==
    LET js == { j \in 1..(i - 1) : nodes[j].cls = "info" }
    IN  IF js = {} THEN 0 ELSE CHOOSE k \in js : \A j \in js : j <= k

\* _find_next_sibling(el, class_name): index or 0.
find_next_sibling(nodes, i, class_name) ==
    LET js == { j \in (i + 1)..Len(nodes) : nodes[j].cls = class_name }
    IN  IF js = {} THEN 0 ELSE CHOOSE k \in js : \A j \in js : k <= j

\* teacher_names = [t for t in teacher_names if t]; ", ".join(teacher_names)
teacher_of(nodes, ki) ==
    IF ki = 0 THEN Dash
    ELSE LET teacher_names == SelectSeq(nodes[ki].teachers, LAMBDA t : t # "")
         IN  IF teacher_names # <<>> THEN teacher_names ELSE Dash

room_of(nodes, ai) ==
    IF ai = 0 THEN Dash
    ELSE IF nodes[ai].words = <<>> THEN Dash ELSE nodes[ai].words

lesson_of(nodes, i, start) ==
    LET ki == find_previous_info(nodes, i)
        gi == find_next_sibling(nodes, i, "info")
        ai == find_next_sibling(nodes, i, "aud")
    IN  [start    |-> start,
         subject  |-> nodes[i].words,
         kind     |-> extract_lesson_kind(IF ki = 0 THEN <<>> ELSE NodeText(nodes[ki])),
         subgroup |-> extract_subgroup(IF gi = 0 THEN <<>> ELSE NodeText(nodes[gi])),
         room     |-> room_of(nodes, ai),
         teacher  |-> teacher_of(nodes, ki)]

\* mutant of tail_lessons: a subject with empty text ends the tail
RECURSIVE tail_lessons_stop_at_empty(_, _, _)
tail_lessons_stop_at_empty(nodes, i, start) ==
    IF i > Len(nodes) THEN <<>>
    ELSE IF nodes[i].cls = "pred" /\ nodes[i].words = <<>> THEN <<>>
    ELSE (IF nodes[i].cls = "pred" THEN <<lesson_of(nodes, i, start)>> ELSE <<>>)
         \o tail_lessons_stop_at_empty(nodes, i + 1, start)

\* for subject_el in tail.select("div.class-pred"): ... lessons.append(...)
RECURSIVE tail_lessons(_, _, _)
tail_lessons(nodes, i, start) ==
    IF i > Len(nodes) THEN <<>>
    ELSE (IF nodes[i].cls = "pred" /\ nodes[i].words # <<>>
          THEN <<lesson_of(nodes, i, start)>> ELSE <<>>)
         \o tail_lessons(nodes, i + 1, start)

----------------------------------------------------------------------------
(* Tail selection and the lessons of one item: lines 270-293.               *)
(* An item is [hasTime, time, tails].                                       *)

\* mutant of tail_selector: the two classes swapped
tail_selector_swapped(odd) == IF odd THEN "even" ELSE "odd"

tail_selector(odd) == IF odd THEN "odd" ELSE "even"

\* item.select("div.class-tail.class-all-week") + item.select_one(tail_selector)
selected_tails(item, odd) ==
    LET all_week  == SelectSeq(item.tails, LAMBDA t : t.week = "all")
        matching  == SelectSeq(item.tails, LAMBDA t : t.week = tail_selector(odd))
        tail_week == IF matching = <<>> THEN <<>> ELSE <<Head(matching)>>
    IN  all_week \o tail_week

\* mutant of item_lessons: the "free" tail ends the item's loop over its tails
item_lessons_free_ends_item(item, odd) ==
    IF ~item.hasTime THEN <<>>
    ELSE LET start == parse_time(item.time)
             tails == selected_tails(item, odd)
             frees == { k \in 1..Len(tails) : TailText(tails[k]) = FreeMarker }
         IN  IF ~start.ok THEN <<>>
             ELSE Flatten([k \in 1..Len(tails) |->
                      IF \E f \in frees : f <= k THEN <<>>
                      ELSE tail_lessons(tails[k].nodes, 1, start)])

item_lessons(item, odd) ==
    IF ~item.hasTime THEN <<>>
    ELSE LET start == parse_time(item.time)
             tails == selected_tails(item, odd)
         IN  IF ~start.ok THEN <<>>
             ELSE Flatten([k \in 1..Len(tails) |->
                      IF TailText(tails[k]) = FreeMarker THEN <<>>
                      ELSE tail_lessons(tails[k].nodes, 1, start)])

----------------------------------------------------------------------------
(* The days of a week page: lines 258-329.                                  *)
(* A page is [hasWeek, weekText, content, nodes]; nodes are the children    *)
(* of div.content in document order, each [tag, heading, items] with tag    *)
(* h3 (a day heading) or lines (a div.class-lines).                         *)

\* h.find_next_sibling("div", class_="class-lines"): index or 0.
find_lines(nodes, i) ==
    LET js == { j \in (i + 1)..Len(nodes) : nodes[j].tag = "lines" }
    IN  IF js = {} THEN 0 ELSE CHOOSE k \in js : \A j \in js : k <= j

RECURSIVE page_days(_, _, _)
page_days(nodes, i, odd) ==
    IF i > Len(nodes) THEN <<>>
    ELSE (IF nodes[i].tag = "h3" /\ find_lines(nodes, i) # 0
          THEN LET items == nodes[find_lines(nodes, i)].items
               IN  <<[heading |-> nodes[i].heading,
                      lessons |-> Flatten([k \in 1..Len(items) |->
                                              item_lessons(items[k], odd)])]>>
          ELSE <<>>)
         \o page_days(nodes, i + 1, odd)

\* The part of get_week_schedule after the fetch.  stored says whether the
\* result reaches line 331 (the insertion into the parsed cache); outcome is
\* how the call ends.
parse_week(page) ==
    IF ~page.content
    THEN [stored |-> FALSE, outcome |-> "result",
          result |-> [is_odd_week |-> is_odd_week(page), days |-> <<>>]]
    ELSE [stored |-> TRUE, outcome |-> "result",
          result |-> [is_odd_week |-> is_odd_week(page),
                      days |-> page_days(page.nodes, 1, is_odd_week(page))]]

----------------------------------------------------------------------------
(* Catalog pages: list_institutes (lines 168-191) and list_groups_by_course *)
(* (lines 193-232).  A title is a sequence of letter codes: 1..26 are the   *)
(* lower-case letters, 101..126 the same letters in upper case.  An anchor  *)
(* is [id, title], one <a> whose href matches the operation's pattern.      *)

Lower(c) == IF c > 100 THEN c - 100 ELSE c

lower(title) == [i \in 1..Len(title) |-> Lower(title[i])]

\* a < b for two lists of numbers, as Python compares strings
RECURSIVE SeqLess(_, _)
SeqLess(a, b) ==
    IF b = <<>> THEN FALSE
    ELSE IF a = <<>> THEN TRUE
    ELSE IF Head(a) # Head(b) THEN Head(a) < Head(b)
    ELSE SeqLess(Tail(a), Tail(b))

\* list.sort(key=lambda x: x.title.lower()): stable
RECURSIVE InsertByTitle(_, _)
InsertByTitle(sorted, x) ==
    IF sorted = <<>> THEN <<x>>
    ELSE IF SeqLess(lower(x.title), lower(Head(sorted).title))
         THEN <<x>> \o sorted
         ELSE <<Head(sorted)>> \o InsertByTitle(Tail(sorted), x)

RECURSIVE sort_by_title(_)
sort_by_title(xs) ==
    IF xs = <<>> THEN <<>>
    ELSE InsertByTitle(sort_by_title(SubSeq(xs, 1, Len(xs) - 1)), xs[Len(xs)])

\* institutes[subdiv_id] = title, anchor by anchor: a dict keeps the place of
\* a key's first insertion and the value of its last.
RECURSIVE institutes_dict(_, _)
institutes_dict(anchors, acc) ==
    IF anchors = <<>> THEN acc
    ELSE LET a == Head(anchors)
             at == { i \in 1..Len(acc) : acc[i].id = a.id }
         IN  institutes_dict(Tail(anchors),
                 IF a.title = <<>> THEN acc
                 ELSE IF at = {} THEN Append(acc, a)
                 ELSE [i \in 1..Len(acc) |-> IF i \in at THEN a ELSE acc[i]])

\* stored: whether the result is kept in _institutes_cache
parse_institutes(page) ==
    IF ~page.content
    THEN [stored |-> FALSE, outcome |-> "result", result |-> <<>>]
    ELSE [stored |-> TRUE, outcome |-> "result",
          result |-> sort_by_title(institutes_dict(page.anchors, <<>>))]

\* groups of one <li>: every anchor with a title, sorted by title
course_groups(anchors) ==
    sort_by_title(SelectSeq(anchors, LAMBDA a : a.title # <<>>))

\* by_course[course] = groups, <li> by <li>; a <li> is [isCourse, course,
\* anchors], isCourse telling whether it has a nested <ul> and a "Курс N" header.
RECURSIVE by_course_of(_, _)
by_course_of(lis, acc) ==
    IF lis = <<>> THEN acc
    ELSE LET li == Head(lis)
             groups == course_groups(li.anchors)
         IN  by_course_of(Tail(lis),
                 IF ~li.isCourse \/ groups = <<>> THEN acc
                 ELSE [c \in DOMAIN acc \cup {li.course} |->
                          IF c = li.course THEN groups ELSE acc[c]])

EmptyMap == [c \in {} |-> <<>>]

parse_groups(page) ==
    IF ~page.kurs
    THEN [stored |-> TRUE, outcome |-> "result", result |-> EmptyMap]
    ELSE [stored |-> TRUE, outcome |-> "result",
          result |-> by_course_of(page.lis, EmptyMap)]

----------------------------------------------------------------------------
(* The parsed-schedule cache: lines 147-166 and 329-333.                    *)
(* The dict is a sequence of [key, ts, result] in insertion order.          *)

Max(a, b) == IF a >= b THEN a ELSE b

DigitChar(n) ==
    CASE n = 0 -> "0" [] n = 1 -> "1" [] n = 2 -> "2" [] n = 3 -> "3" [] n = 4 -> "4"
      [] n = 5 -> "5" [] n = 6 -> "6" [] n = 7 -> "7" [] n = 8 -> "8" [] n = 9 -> "9"

\* str(n) for n >= 0
RECURSIVE Decimal(_)
Decimal(n) ==
    IF n < 10 THEN <<DigitChar(n)>> ELSE Decimal(n \div 10) \o <<DigitChar(n % 10)>>

\* digits zero-padded on the left to width w (the :04d and :02d of isoformat)
RECURSIVE PadTo(_, _)
PadTo(digits, w) == IF Len(digits) >= w THEN digits ELSE PadTo(<<"0">> \o digits, w)

Padded(n, w) == PadTo(Decimal(n), w)

\* target_date.isoformat(): YYYY-MM-DD
isoformat(d) == Padded(d.y, 4) \o <<"-">> \o Padded(d.m, 2) \o <<"-">> \o Padded(d.d, 2)

parsed_cache_key(group_id, target_date) ==
    [group |-> group_id, date |-> isoformat(target_date)]

Keys(cache) == { cache[i].key : i \in 1..Len(cache) }

Lookup(cache, key) == cache[CHOOSE i \in 1..Len(cache) : cache[i].key = key]

\* d[key] = value
dict_put(cache, entry) ==
    IF entry.key \in Keys(cache)
    THEN [i \in 1..Len(cache) |-> IF cache[i].key = entry.key THEN entry ELSE cache[i]]
    ELSE Append(cache, entry)

\* mutant of expired: the age test is off by one second
expired_late(cache, t, ttl) ==
    { cache[i].key : i \in { j \in 1..Len(cache) : t - cache[j].ts > Max(1, ttl) + 1 } }

\* expired = [k ... if now - ts > ttl]
expired(cache, t, ttl) ==
    { cache[i].key : i \in { j \in 1..Len(cache) : t - cache[j].ts > Max(1, ttl) } }

\* sorted(items, key=lambda kv: kv[1][0]): stable, ascending timestamps
RECURSIVE InsertByTs(_, _)
InsertByTs(sorted, x) ==
    IF sorted = <<>> THEN <<x>>
    ELSE IF x.ts < Head(sorted).ts
         THEN <<x>> \o sorted
         ELSE <<Head(sorted)>> \o InsertByTs(Tail(sorted), x)

\* mutant of sorted_by_ts: newest first
RECURSIVE sorted_newest_first(_)
sorted_newest_first(xs) ==
    IF xs = <<>> THEN <<>>
    ELSE LET newest == CHOOSE i \in 1..Len(xs) : \A j \in 1..Len(xs) : xs[j].ts <= xs[i].ts
         IN  <<xs[newest]>> \o sorted_newest_first(
                 SubSeq(xs, 1, newest - 1) \o SubSeq(xs, newest + 1, Len(xs)))

RECURSIVE sorted_by_ts(_)
sorted_by_ts(xs) ==
    IF xs = <<>> THEN <<>>
    ELSE InsertByTs(sorted_by_ts(SubSeq(xs, 1, Len(xs) - 1)), xs[Len(xs)])

\* lines 160-166: the entries a cache over capacity loses
capacity_victims(cache, mx) ==
    LET max_items == Max(1, mx)
        items == sorted_by_ts(cache)
    IN  IF Len(cache) <= max_items THEN {}
        ELSE Range(SubSeq(items, 1, Max(0, Len(items) - max_items)))

without(cache, keys) == SelectSeq(cache, LAMBDA e : e.key \notin keys)

prune_parsed_cache(cache, t, ttl, mx) ==
    LET live == without(cache, expired(cache, t, ttl))
    IN  without(live, { v.key : v \in capacity_victims(live, mx) })

\* what the prune of `cache` evicts for capacity
prune_victims(cache, t, ttl, mx) ==
    capacity_victims(without(cache, expired(cache, t, ttl)), mx)

----------------------------------------------------------------------------
(* _get_text and its raw-response cache: lines 135-145.                     *)
(* A request is [op, group, date, subdiv]: op is week, institutes or        *)
(* groups; the fields an operation does not use hold NoId and NoDate.       *)

NoId == 0 - 1
NoDate == [y |-> 0, m |-> 0, d |-> 0]

\* f"{target_date.year}-{target_date.month}-{target_date.day}" (line 243)
date_param(d) == Decimal(d.y) \o <<"-">> \o Decimal(d.m) \o <<"-">> \o Decimal(d.d)

\* the params dict of each operation's _get_text call (lines 171, 198, 241-244)
params_of(req) ==
    CASE req.op = "institutes" -> [subdiv |-> NoId, group |-> NoId, date |-> <<>>]
      [] req.op = "groups"     -> [subdiv |-> req.subdiv, group |-> NoId, date |-> <<>>]
      [] req.op = "week"       -> [subdiv |-> NoId, group |-> req.group,
                                   date |-> date_param(req.date)]

\* key = url + "?" + "&".join(f"{k}={v}" ...): one key per params dict
text_key(req) == params_of(req)

RawCacheTtl == 30
RequestTimeout == 25

\* cached and now - cached[0] < 30
raw_fresh(cache, key, t) ==
    key \in Keys(cache) /\ t - Lookup(cache, key).ts < RawCacheTtl

----------------------------------------------------------------------------
(* Bounds and inputs of the client specification *)

MaxCalls == 2
MaxTicks == 2
Tasks == {1, 2}
\* the configurations of SCHEDULE_PARSED_CACHE_TTL and SCHEDULE_PARSED_CACHE_MAX
\* that Spec starts from: below the floor of 1 that _prune_parsed_cache
\* applies, and above it
Configs == { [ttl |-> 0, max |-> 0], [ttl |-> 2, max |-> 2] }
DefaultTtl == 120
DefaultMax == 256

Groups == {1540}
Subdivs == {683}
\* 2024-12-30 (Mon) and 2025-01-01 (Wed) lie in ISO week 2025-W01; 2025-01-06
\* (Mon) is in ISO week 2025-W02.
Dates == { [y |-> 2024, m |-> 12, d |-> 30],
           [y |-> 2025, m |-> 1,  d |-> 1],
           [y |-> 2025, m |-> 1,  d |-> 6] }

WeekReq(g, d) == [op |-> "week", group |-> g, date |-> d, subdiv |-> NoId]
InstitutesReq == [op |-> "institutes", group |-> NoId, date |-> NoDate, subdiv |-> NoId]
GroupsReq(sd) == [op |-> "groups", group |-> NoId, date |-> NoDate, subdiv |-> sd]

\* Page builders
H3(heading)  == [tag |-> "h3", heading |-> heading, items |-> <<>>]
LinesDiv(items) == [tag |-> "lines", heading |-> <<>>, items |-> items]
Pred(words)  == [cls |-> "pred", words |-> words, teachers |-> <<>>]
Info(words, teachers) == [cls |-> "info", words |-> words, teachers |-> teachers]
Aud(words)   == [cls |-> "aud", words |-> words, teachers |-> <<>>]
TailOf(week, nodes) == [week |-> week, nodes |-> nodes]
Item(time, tails) == [hasTime |-> TRUE, time |-> time, tails |-> tails]

TxtOdd  == <<"n", "e", "c", "e", "t", "n", "a", "y">>   \* "нечетная"
TxtOdd2 == <<"n", "e", "c", "o", "t">>                  \* "нечёт"
TxtEven == <<"c", "e", "t", "n", "a", "y">>             \* "четная"
TxtEven2 == <<"c", "o", "t", "n">>                      \* "чётн"
TxtNone == <<"n", "e", "d", "e", "l", "y">>             \* "неделя"

T0900 == <<"0", "9", ":", "0", "0">>

\* "понедельник, 30 декабря" and "вторник, 31 декабря", the weekday shortened
HMon30Dec == <<"p", "n", ",", " ", "3", "0", " ", "d", "e", "k", "a", "b", "r", "y">>
HTue31Dec == <<"v", "t", ",", " ", "3", "1", " ", "d", "e", "k", "a", "b", "r", "y">>

AlgebraTail ==
    TailOf("all", << Info(<<"lekciya">>, <<"ivanov">>), Pred(<<"algebra">>),
                     Aud(<<"204">>) >>)

GoodWeekPage ==
    [hasWeek |-> TRUE, weekText |-> TxtOdd, content |-> TRUE,
     nodes |-> << H3(HMon30Dec), LinesDiv(<< Item(T0900, <<AlgebraTail>>) >>) >>]

NoContentWeekPage ==
    [hasWeek |-> TRUE, weekText |-> TxtEven, content |-> FALSE, nodes |-> <<>>]

GoodInstitutesPage ==
    [content |-> TRUE,
     anchors |-> << [id |-> 683, title |-> <<102, 1>>], [id |-> 5, title |-> <<1, 2>>] >>]

NoContentInstitutesPage == [content |-> FALSE, anchors |-> <<>>]

GoodGroupsPage ==
    [kurs |-> TRUE,
     lis |-> << [isCourse |-> TRUE, course |-> 1,
                 anchors |-> << [id |-> 1540, title |-> <<2>>] >>] >>]

NoKursGroupsPage == [kurs |-> FALSE, lis |-> <<>>]

\* the pages upstream may answer a request with
PagesFor(op) ==
    CASE op = "week"       -> {GoodWeekPage, NoContentWeekPage}
      [] op = "institutes" -> {GoodInstitutesPage, NoContentInstitutesPage}
      [] op = "groups"     -> {GoodGroupsPage, NoKursGroupsPage}

\* how a GET can fail: raise_for_status on a 5xx or a 4xx status, a
\* connection error, the 25 s total timeout
Failures == {"http503", "http404", "conn", "timeout"}

----------------------------------------------------------------------------
(* The client's state machine.  A task is one call of a client operation:   *)
(*   pc       idle, fetching (suspended in session.get / resp.text),        *)
(*            returned, raised, cancelled                                   *)
(*   req      the call's arguments                                          *)
(*   reqStart `now` of _get_text, line 137                                  *)
(*   gets     GETs issued for the call;  fetches: calls of _get_text;       *)
(*   parses   pages parsed                                                  *)
(*   hit      the call was answered from the parsed cache                   *)
(*   ret      the value returned;  err: the failure raised ("" for none)    *)
(*   page     the page text the call parsed                                 *)
(*   sameWeek, hitAge, ownStale: what the call saw in the parsed cache at   *)
(*            its lookup (an entry of the same group and ISO week; the age  *)
(*            of the entry it was answered from; an entry under its own key *)
(*            older than the effective TTL)                                 *)
(*   srcAge   at the return, the time since the upstream response behind    *)
(*            the returned value arrived                                    *)
(*   handler  the front-end handler that made the call;  reply: the kinds   *)
(*            of the messages it answered the user with after the call;     *)
(*   propagated  the call's exception left the handler                      *)

NoPage == [none |-> TRUE]
NoRet == [kind |-> "none"]

IdleTask ==
    [pc |-> "idle",
     req |-> [op |-> "institutes", group |-> NoId, date |-> NoDate, subdiv |-> NoId],
     reqStart |-> 0, gets |-> 0, fetches |-> 0, parses |-> 0, hit |-> FALSE,
     ret |-> NoRet, err |-> "", page |-> NoPage,
     sameWeek |-> FALSE, hitAge |-> 0, ownStale |-> FALSE, srcAge |-> 0,
     handler |-> "", reply |-> <<>>, propagated |-> FALSE]

NoCatalog == [set |-> FALSE, list |-> <<>>]

\* --- ISO-8601 week of a date (datetime.date.isocalendar), used to say which
\* dates the specification puts under one cache key
IsLeap(y) == (y % 4 = 0) /\ ((y % 100 # 0) \/ (y % 400 = 0))

DaysBeforeMonth(y, m) ==
    LET cum == <<0, 31, 59, 90, 120, 151, 181, 212, 243, 273, 304, 334>>
    IN  cum[m] + (IF m > 2 /\ IsLeap(y) THEN 1 ELSE 0)

Ordinal(y, m, d) ==
    (y - 1) * 365 + ((y - 1) \div 4) - ((y - 1) \div 100) + ((y - 1) \div 400)
    + DaysBeforeMonth(y, m) + d

IsoWeek1Monday(y) ==
    LET firstday == Ordinal(y, 1, 1)
        firstweekday == (firstday + 6) % 7
    IN  firstday - firstweekday + (IF firstweekday > 3 THEN 7 ELSE 0)

IsoYearWeek(dt) ==
    LET today == Ordinal(dt.y, dt.m, dt.d)
        w == (today - IsoWeek1Monday(dt.y)) \div 7
    IN  IF today < IsoWeek1Monday(dt.y)
        THEN <<dt.y - 1, ((today - IsoWeek1Monday(dt.y - 1)) \div 7) + 1>>
        ELSE IF w >= 52 /\ today >= IsoWeek1Monday(dt.y + 1)
             THEN <<dt.y + 1, 1>>
             ELSE <<dt.y, w + 1>>

\* the date an isoformat key was built from
DateOfKey(key) == CHOOSE d \in Dates : isoformat(d) = key.date

SameWeekCached(cache, req) ==
    \E i \in 1..Len(cache) :
        /\ cache[i].key.group = req.group
        /\ IsoYearWeek(DateOfKey(cache[i].key)) = IsoYearWeek(req.date)

\* an entry under `key` inserted at T exists and the time is T + TTL + 1 or later
StaleUnderKey(cache, key, t, ttl) ==
    \E i \in 1..Len(cache) : cache[i].key = key /\ t >= cache[i].ts + Max(1, ttl) + 1

\* --- headings and dates: _extract_day_month (lines 392-401) and
\* _extract_date_from_heading (lines 404-417).  A heading is a sequence of
\* one-character strings, lower case as after heading.lower(); further
\* Cyrillic letters are written  v=в r=р f=ф m=м p=п i=и u=ю g=г w=у s=с
\* b=б k=к q=о.

Letters == {"a", "b", "c", "d", "e", "f", "g", "i", "k", "l", "m", "n", "o", "p",
            "q", "r", "s", "t", "u", "v", "w", "y"}

\* RU_MONTHS, lines 376-389
RU_MONTHS ==
    { <<<<"y", "n", "v", "a", "r", "y">>, 1>>,
      <<<<"f", "e", "v", "r", "a", "l", "y">>, 2>>,
      <<<<"m", "a", "r", "t", "a">>, 3>>,
      <<<<"a", "p", "r", "e", "l", "y">>, 4>>,
      <<<<"m", "a", "y">>, 5>>,
      <<<<"i", "u", "n", "y">>, 6>>,
      <<<<"i", "u", "l", "y">>, 7>>,
      <<<<"a", "v", "g", "w", "s", "t", "a">>, 8>>,
      <<<<"s", "e", "n", "t", "y", "b", "r", "y">>, 9>>,
      <<<<"q", "k", "t", "y", "b", "r", "y">>, 10>>,
      <<<<"n", "q", "y", "b", "r", "y">>, 11>>,
      <<<<"d", "e", "k", "a", "b", "r", "y">>, 12>> }

\* the length of the longest run of characters of `cls` that starts at s[i]
RECURSIVE RunLen(_, _, _)
RunLen(s, i, cls) ==
    IF i > Len(s) \/ s[i] \notin cls THEN 0 ELSE 1 + RunLen(s, i + 1, cls)

Spaces == {" ", "\t", "\n"}

\* int() of a run of decimal digits
RECURSIVE IntOf(_)
IntOf(ds) == IF ds = <<>> THEN 0 ELSE 10 * IntOf(SubSeq(ds, 1, Len(ds) - 1)) + DigitVal(ds[Len(ds)])

NoDayMonth == [ok |-> FALSE, day |-> 0, month |-> 0]

NoMatch == [ok |-> FALSE, day |-> <<>>, word |-> <<>>]

\* The match of ,\s*(\d{1,2})\s+([а-яё]+) that starts at the comma h[i], as
\* [ok, day digits, month word].  The pattern is followed group by group:
\* j is where \s* ends, nd the length of the digit run at j, k where \s+
\* ends, and the word is the run of letters at k.
match_word(h, j, nd, k) ==
    IF k > j + nd /\ RunLen(h, k, Letters) >= 1
    THEN [ok |-> TRUE, day |-> SubSeq(h, j, j + nd - 1),
          word |-> SubSeq(h, k, k + RunLen(h, k, Letters) - 1)]
    ELSE NoMatch

match_digits(h, j, nd) ==
    IF nd \in {1, 2} THEN match_word(h, j, nd, j + nd + RunLen(h, j + nd, Spaces))
    ELSE NoMatch

match_day(h, j) == match_digits(h, j, RunLen(h, j, Digits))

match_day_month_at(h, i) ==
    IF h[i] = "," THEN match_day(h, i + 1 + RunLen(h, i + 1, Spaces)) ELSE NoMatch

\* lines 397-401 on the match m
day_month_of(m) ==
    IF \E pr \in RU_MONTHS : pr[1] = m.word
    THEN [ok |-> TRUE, day |-> IntOf(m.day),
          month |-> (CHOOSE pr \in RU_MONTHS : pr[1] = m.word)[2]]
    ELSE NoDayMonth

\* re.search: the leftmost match; RU_MONTHS.get(m.group(2))
extract_day_month(heading) ==
    IF \E i \in 1..Len(heading) : match_day_month_at(heading, i).ok
    THEN day_month_of(match_day_month_at(heading,
             CHOOSE i \in 1..Len(heading) :
                 /\ match_day_month_at(heading, i).ok
                 /\ \A j \in 1..(i - 1) : ~match_day_month_at(heading, j).ok))
    ELSE NoDayMonth

\* datetime.date's _days_in_month
days_in_month(y, m) ==
    IF m = 2 THEN (IF IsLeap(y) THEN 29 ELSE 28)
    ELSE IF m \in {4, 6, 9, 11} THEN 30 ELSE 31

MINYEAR == 1
MAXYEAR == 9999

\* mutant of date_is_valid: every day number up to 31 is taken
date_is_valid_any_month(y, m, d) ==
    /\ MINYEAR <= y /\ y <= MAXYEAR
    /\ 1 <= m /\ m <= 12
    /\ 1 <= d /\ d <= 31

\* date(year, month, day) raises ValueError unless this holds
date_is_valid(y, m, d) ==
    /\ MINYEAR <= y /\ y <= MAXYEAR
    /\ 1 <= m /\ m <= 12
    /\ 1 <= d /\ d <= days_in_month(y, m)

\* mutant of resolved_year: the January-to-December step back is missing
resolved_year_forward_only(reference, month) ==
    IF reference.m = 12 /\ month = 1 THEN reference.y + 1 ELSE reference.y

\* lines 409-413: the year a heading's month belongs to
resolved_year(reference, month) ==
    LET y1 == IF reference.m = 12 /\ month = 1 THEN reference.y + 1 ELSE reference.y
    IN  IF reference.m = 1 /\ month = 12 THEN y1 - 1 ELSE y1

NoResolvedDate == [kind |-> "none"]

\* date(year, month, day): the date, or the exception it raises
date_new(y, m, d) ==
    IF date_is_valid(y, m, d)
    THEN [kind |-> "date", date |-> [y |-> y, m |-> m, d |-> d]]
    ELSE [kind |-> "raise", error |-> "ValueError"]

\* lines 414-417: the try and its except ValueError around date(...)
except_value_error(made) ==
    IF made.kind = "raise" /\ made.error = "ValueError" THEN NoResolvedDate ELSE made

\* lines 406-417 on the (day, month) of the heading
date_of_day_month(dm, reference) ==
    IF ~dm.ok THEN NoResolvedDate
    ELSE except_value_error(date_new(resolved_year(reference, dm.month), dm.month, dm.day))

\* kind is date, none (the function returned None) or raise (an exception
\* left the function)
extract_date_from_heading(heading, reference) ==
    date_of_day_month(extract_day_month(heading), reference)

\* --- the front-end handlers around the client operations

\* date.weekday(): Monday is 0
Weekday(d) == (Ordinal(d.y, d.m, d.d) + 6) % 7

\* The handler behind a request.  list_institutes is called by cmd_start
\* (line 531), list_groups_by_course by on_setup_institute (line 578),
\* get_week_schedule by _send_day and _send_week (lines 805, 826).  on_menu
\* gives _send_week a Monday (lines 794, 798); here the week buttons are the
\* ones pressed for a Monday and the day buttons for every other day.
handler_of(req) ==
    CASE req.op = "institutes" -> "cmd_start"
      [] req.op = "groups"     -> "on_setup_institute"
      [] req.op = "week"       -> IF Weekday(req.date) = 0 THEN "_send_week"
                                                            ELSE "_send_day"

\* day_date == target_date, line 813
is_target(day_date, target_date) ==
    day_date.kind = "date" /\ day_date.date = target_date

\* _send_day after the call, lines 810-821
send_day_reply(days, target_date) ==
    IF \E i \in 1..Len(days) :
           is_target(extract_date_from_heading(days[i].heading, target_date), target_date)
    THEN <<"day">> ELSE <<"not_found">>

date_ordinal(d) == Ordinal(d.y, d.m, d.d)

\* day_date is not None and monday <= day_date <= week_end, lines 841-843
in_week(day_date, lo) ==
    /\ day_date.kind = "date"
    /\ lo <= date_ordinal(day_date.date)
    /\ date_ordinal(day_date.date) <= lo + 6

\* lines 847-852 on the number of days picked
week_messages(n) == IF n = 0 THEN <<"not_found">> ELSE [k \in 1..n |-> "day"]

\* _send_week after the call, lines 831-852
send_week_reply(days, monday) ==
    <<"title">> \o week_messages(Cardinality(
        { i \in 1..Len(days) :
            in_week(extract_date_from_heading(days[i].heading, monday),
                    date_ordinal(monday)) }))

\* the handler once its call has returned tk.ret
handler_return(tk) ==
    [tk EXCEPT !.reply =
        CASE tk.handler = "cmd_start" ->
                 IF tk.ret.value = <<>> THEN <<"retry_later">> ELSE <<"choose_institute">>
          [] tk.handler = "on_setup_institute" ->
                 IF DOMAIN tk.ret.value = {} THEN <<"no_courses">> ELSE <<"choose_course">>
          [] tk.handler = "_send_day" -> send_day_reply(tk.ret.value.days, tk.req.date)
          [] tk.handler = "_send_week" -> send_week_reply(tk.ret.value.days, tk.req.date)]

\* the handler once its call has raised: _send_day and _send_week catch
\* Exception and answer (lines 806-808, 827-829); cmd_start and
\* on_setup_institute have no try around the call (lines 531, 578)
handler_raise(tk) ==
    IF tk.handler \in {"_send_day", "_send_week"}
    THEN [tk EXCEPT !.reply = <<"retry_later">>]
    ELSE [tk EXCEPT !.propagated = TRUE]

\* --- the operations

parse(op, text) ==
    CASE op = "week"       -> parse_week(text)
      [] op = "institutes" -> parse_institutes(text)
      [] op = "groups"     -> parse_groups(text)

\* The rest of an operation once _get_text has returned `text`: parse, store,
\* return.  tk is the task so far, pcache the parsed cache at this point.
AfterText(t, tk, text, pcache) ==
    LET p == parse(tk.req.op, text)
        key == parsed_cache_key(tk.req.group, tk.req.date)
        put == dict_put(pcache, [key |-> key, ts |-> now, result |-> p.result,
                                 fetched |-> now - tk.srcAge])
    IN  /\ tasks' = [tasks EXCEPT ![t] = handler_return(
                        [tk EXCEPT !.pc = "returned", !.parses = @ + 1,
                                   !.reqStart = 0,
                                   !.ret = [kind |-> tk.req.op, value |-> p.result],
                                   !.page = text])]
        /\ IF tk.req.op = "week" /\ p.stored
           THEN /\ parsedCache' = prune_parsed_cache(put, now, ttlCfg, maxCfg)
                /\ lastEvicted' = [victims |-> prune_victims(put, now, ttlCfg, maxCfg),
                                   inserted |-> {key}]
           ELSE /\ parsedCache' = pcache
                /\ lastEvicted' = IF tk.req.op = "week"
                                  THEN [victims |-> {}, inserted |-> {}]
                                  ELSE lastEvicted
        /\ institutesCache' = IF tk.req.op = "institutes" /\ p.stored
                              THEN [set |-> TRUE, list |-> p.result]
                              ELSE institutesCache
        /\ groupsCache' = IF tk.req.op = "groups" /\ p.stored
                          THEN [sd \in DOMAIN groupsCache \cup {tk.req.subdiv} |->
                                   IF sd = tk.req.subdiv THEN p.result ELSE groupsCache[sd]]
                          ELSE groupsCache

\* mutant of GetText: a placeholder entry is put under the key before the GET
GetTextPlaceholder(t, tk, pcache) ==
    LET key == text_key(tk.req)
        tf == [tk EXCEPT !.fetches = @ + 1, !.reqStart = now]
        placeholder == [key |-> parsed_cache_key(tk.req.group, tk.req.date), ts |-> now,
                        result |-> [is_odd_week |-> FALSE, days |-> <<>>],
                        fetched |-> now]
    IN  IF raw_fresh(rawCache, key, now)
        THEN /\ AfterText(t, [tf EXCEPT !.srcAge = now - Lookup(rawCache, key).got],
                           Lookup(rawCache, key).text, pcache)
             /\ rawCache' = rawCache
        ELSE /\ tasks' = [tasks EXCEPT ![t] = [tf EXCEPT !.pc = "fetching", !.gets = @ + 1]]
             /\ parsedCache' = IF tk.req.op = "week" THEN dict_put(pcache, placeholder)
                                                     ELSE pcache
             /\ lastEvicted' = IF tk.req.op = "week"
                               THEN [victims |-> {}, inserted |-> {}]
                               ELSE lastEvicted
             /\ UNCHANGED <<rawCache, institutesCache, groupsCache>>

\* _get_text up to its first suspension: answer from the raw cache, or issue
\* the GET and suspend.
GetText(t, tk, pcache) ==
    LET key == text_key(tk.req)
        tf == [tk EXCEPT !.fetches = @ + 1, !.reqStart = now]
    IN  IF raw_fresh(rawCache, key, now)
        THEN /\ AfterText(t, [tf EXCEPT !.srcAge = now - Lookup(rawCache, key).got],
                           Lookup(rawCache, key).text, pcache)
             /\ rawCache' = rawCache
        ELSE /\ tasks' = [tasks EXCEPT ![t] = [tf EXCEPT !.pc = "fetching", !.gets = @ + 1]]
             /\ parsedCache' = pcache
             /\ lastEvicted' = IF tk.req.op = "week"
                               THEN [victims |-> {}, inserted |-> {}]
                               ELSE lastEvicted
             /\ UNCHANGED <<rawCache, institutesCache, groupsCache>>

NewTask(req) == [IdleTask EXCEPT !.req = req, !.handler = handler_of(req)]

StartCall(t) ==
    /\ tasks[t].pc # "fetching"
    /\ calls < MaxCalls
    /\ calls' = calls + 1
    /\ UNCHANGED <<now, ttlCfg, maxCfg, ticks, parseVars>>

\* get_week_schedule(group_id, target_date), up to its first suspension
CallWeek(t, group_id, target_date) ==
    LET req == WeekReq(group_id, target_date)
        pruned == prune_parsed_cache(parsedCache, now, ttlCfg, maxCfg)
        key == parsed_cache_key(group_id, target_date)
        tk == [NewTask(req) EXCEPT
                 !.sameWeek = SameWeekCached(pruned, req),
                 !.ownStale = StaleUnderKey(parsedCache, key, now, ttlCfg)]
    IN  /\ StartCall(t)
        /\ IF key \in Keys(pruned)
           THEN /\ tasks' = [tasks EXCEPT ![t] = handler_return(
                               [tk EXCEPT !.pc = "returned", !.hit = TRUE,
                                          !.hitAge = now - Lookup(pruned, key).ts,
                                          !.srcAge = now - Lookup(pruned, key).fetched,
                                          !.ret = [kind |-> "week",
                                                   value |-> Lookup(pruned, key).result]])]
                /\ parsedCache' = pruned
                /\ lastEvicted' = [victims |-> {}, inserted |-> {}]
                /\ UNCHANGED <<rawCache, institutesCache, groupsCache>>
           ELSE GetText(t, tk, pruned)

\* list_institutes(), up to its first suspension
CallInstitutes(t) ==
    /\ StartCall(t)
    /\ IF institutesCache.set
       THEN /\ tasks' = [tasks EXCEPT ![t] = handler_return(
                           [NewTask(InstitutesReq) EXCEPT !.pc = "returned", !.hit = TRUE,
                                !.ret = [kind |-> "institutes",
                                         value |-> institutesCache.list]])]
            /\ UNCHANGED <<rawCache, parsedCache, institutesCache, groupsCache, lastEvicted>>
       ELSE GetText(t, NewTask(InstitutesReq), parsedCache)

\* list_groups_by_course(subdiv_id), up to its first suspension
CallGroups(t, subdiv_id) ==
    /\ StartCall(t)
    /\ IF subdiv_id \in DOMAIN groupsCache
       THEN /\ tasks' = [tasks EXCEPT ![t] = handler_return(
                           [NewTask(GroupsReq(subdiv_id)) EXCEPT !.pc = "returned",
                                !.hit = TRUE,
                                !.ret = [kind |-> "groups",
                                         value |-> groupsCache[subdiv_id]]])]
            /\ UNCHANGED <<rawCache, parsedCache, institutesCache, groupsCache, lastEvicted>>
       ELSE GetText(t, NewTask(GroupsReq(subdiv_id)), parsedCache)

\* the response arrives with a 2xx status: lines 141-145, then the caller
RespondOk(t, text) ==
    /\ tasks[t].pc = "fetching"
    /\ now - tasks[t].reqStart < RequestTimeout
    /\ text \in PagesFor(tasks[t].req.op)
    /\ rawCache' = dict_put(rawCache, [key |-> text_key(tasks[t].req),
                                       ts |-> tasks[t].reqStart, text |-> text,
                                       got |-> now])
    /\ AfterText(t, [tasks[t] EXCEPT !.srcAge = 0], text, parsedCache)
    /\ UNCHANGED <<now, ttlCfg, maxCfg, calls, ticks, parseVars>>

\* mutant of on_failure: the failure is swallowed and nothing is returned
on_failure_swallowed(tk, failure) ==
    [tk EXCEPT !.pc = "returned", !.err = failure, !.reqStart = 0,
               !.ret = [kind |-> tk.req.op, value |-> <<>>]]

\* mutant of on_failure: a 4xx answer is retried like a transient failure,
\* up to three GETs
on_failure_retry_4xx(tk, failure) ==
    IF failure = "http404" /\ tk.gets < 3
    THEN [tk EXCEPT !.gets = @ + 1]
    ELSE handler_raise([tk EXCEPT !.pc = "raised", !.err = failure, !.reqStart = 0])

\* what a failed GET does to the task: the exception leaves _get_text and the
\* operation, and reaches the handler
on_failure(tk, failure) ==
    handler_raise([tk EXCEPT !.pc = "raised", !.err = failure, !.reqStart = 0])

\* the GET fails: session.get, raise_for_status or resp.text raises
RespondFail(t, failure) ==
    /\ tasks[t].pc = "fetching"
    /\ failure \in Failures
    /\ (failure = "timeout") <=> (now - tasks[t].reqStart >= RequestTimeout)
    /\ tasks' = [tasks EXCEPT ![t] = on_failure(tasks[t], failure)]
    /\ UNCHANGED <<now, ttlCfg, maxCfg, rawCache, parsedCache, institutesCache,
                   groupsCache, calls, ticks, lastEvicted, parseVars>>

\* the caller abandons the request: the task is cancelled at its await
Abandon(t) ==
    /\ tasks[t].pc = "fetching"
    /\ tasks' = [tasks EXCEPT ![t] = [tasks[t] EXCEPT !.pc = "cancelled", !.reqStart = 0]]
    /\ UNCHANGED <<now, ttlCfg, maxCfg, rawCache, parsedCache, institutesCache,
                   groupsCache, calls, ticks, lastEvicted, parseVars>>

\* the loop clock advances by dt seconds
Tick(dt) ==
    /\ ticks < MaxTicks
    /\ ticks' = ticks + 1
    /\ now' = now + dt
    /\ UNCHANGED <<ttlCfg, maxCfg, rawCache, parsedCache, institutesCache,
                   groupsCache, tasks, calls, lastEvicted, parseVars>>

NoOut == [done |-> FALSE]

InitClientState ==
    /\ now = 0
    /\ rawCache = <<>>
    /\ parsedCache = <<>>
    /\ institutesCache = NoCatalog
    /\ groupsCache = EmptyMap
    /\ tasks = [t \in Tasks |-> IdleTask]
    /\ calls = 0
    /\ ticks = 0
    /\ lastEvicted = [victims |-> {}, inserted |-> {}]

IdleParser ==
    /\ pPage = GoodWeekPage
    /\ pDate = CHOOSE d \in Dates : TRUE
    /\ pOut = NoOut

NoCall == [fn |-> "none"]

IdleHarness ==
    /\ fnIn = NoCall
    /\ fnOut = NoOut

\* --- the front end and the FSM storage at rest
Users == {1}            \* the users who write to the bot
Strangers == {2}        \* a user user_settings.json already holds

\* FSMContext.clear(): no state, data {}
ClearCtx == [state |-> "none", data |-> EmptyMap]

NoSettings == [set |-> FALSE]
NoKb == [buttons |-> <<>>, prev |-> FALSE, next |-> FALSE]
NoReport == [composed |-> FALSE]
NoMsg == [text |-> <<>>, caption |-> <<>>, photo |-> <<>>]

\* the settings of the stranger: group "b" (id 1002) of institute 683, course 1
StrangerSettings ==
    [set |-> TRUE, group_id |-> 1002, group_title |-> <<2>>, subdiv_id |-> 683, course |-> 1]

IdleChat ==
    /\ fsm = [u \in Users |-> ClearCtx]
    /\ store = [u \in Users \cup Strangers |->
                   IF u \in Strangers THEN StrangerSettings ELSE NoSettings]
    /\ last = [user |-> 0, msg |-> NoMsg, handler |-> "", replies |-> <<>>,
               kb |-> NoKb, report |-> NoReport]

IdleBot == IdleChat /\ adminUserId = 0

NoDbOp == [op |-> "none"]

\* --- Database (src/database.py, lines 14-70) after connect(): the pool with
\* nothing acquired, the tasks outside any call
DbTasks == {1, 2}

IdleDbTask == [pc |-> "idle", op |-> "", conn |-> 0, exc |-> FALSE, calls |-> 0]

IdlePool ==
    /\ pool = [open |-> TRUE, used |-> {}]
    /\ dbTasks = [c \in DbTasks |-> IdleDbTask]

IdleDb ==
    /\ fsmContext = EmptyMap
    /\ fsmSet = EmptyMap
    /\ dbOp = NoDbOp
    /\ IdlePool

IdleFront == IdleBot /\ IdleDb

\* Spec: concurrent get_week_schedule calls against the parsed cache, with
\* small configured TTLs and capacities and a clock moving in seconds.
Init ==
    /\ InitClientState
    /\ \E c \in Configs : ttlCfg = c.ttl /\ maxCfg = c.max
    /\ IdleParser
    /\ IdleHarness
    /\ IdleFront

Next ==
    \/ \E t \in Tasks, g \in Groups, d \in Dates : CallWeek(t, g, d)
    \/ \E t \in Tasks : \E text \in PagesFor(tasks[t].req.op) : RespondOk(t, text)
    \/ \E t \in Tasks : RespondFail(t, "http503")
    \/ \E t \in Tasks : Abandon(t)
    \/ Tick(1)

Spec == Init /\ [][Next]_vars

\* SpecClient: the three operations with the default configuration and a
\* clock moving in steps of the raw cache's lifetime.
InitClient ==
    /\ InitClientState
    /\ ttlCfg = DefaultTtl
    /\ maxCfg = DefaultMax
    /\ IdleParser
    /\ IdleHarness
    /\ IdleFront

NextClient ==
    \/ \E t \in Tasks, g \in Groups, d \in Dates : CallWeek(t, g, d)
    \/ \E t \in Tasks : CallInstitutes(t)
    \/ \E t \in Tasks, sd \in Subdivs : CallGroups(t, sd)
    \/ \E t \in Tasks : \E text \in PagesFor(tasks[t].req.op) : RespondOk(t, text)
    \/ \E t \in Tasks, failure \in Failures : RespondFail(t, failure)
    \/ \E t \in Tasks : Abandon(t)
    \/ Tick(RawCacheTtl)

SpecClient == InitClient /\ [][NextClient]_vars

----------------------------------------------------------------------------
(* SpecParse: the week-page parser applied to one page and one requested    *)
(* date drawn from bounded sets.                                            *)

T1045 == <<"1", "0", ":", "4", "5">>
T2500 == <<"2", "5", ":", "0", "0">>

\* all-week, odd and even tails, each with a subject of its own
ItemAllOddEven ==
    Item(T0900, << AlgebraTail,
                   TailOf("odd",  << Pred(<<"physics">>), Aud(<<"101">>) >>),
                   TailOf("even", << Pred(<<"chemistry">>), Aud(<<"102">>) >>) >>)

\* parity tails only; the second odd tail is not the first match
ItemOddEven ==
    Item(T1045, << TailOf("even", << Pred(<<"biology">>) >>),
                   TailOf("odd",  << Info(<<"praktika", "podgruppa", "1">>, <<>>),
                                     Pred(<<"history">>),
                                     Info(<<"podgruppa", "2">>, <<>>) >>),
                   TailOf("odd",  << Pred(<<"latin">>) >>) >>)

\* a time out of range
ItemBadTime == Item(T2500, << TailOf("all", << Pred(<<"drawing">>) >>) >>)

\* no div.class-time at all
ItemNoTime ==
    [hasTime |-> FALSE, time |-> <<>>, tails |-> << TailOf("all", << Pred(<<"music">>) >>) >>]

\* an all-week tail that only says "свободно", next to parity tails
ItemFree ==
    Item(T0900, << TailOf("all",  << Pred(FreeMarker) >>),
                   TailOf("odd",  << Pred(<<"physics">>) >>),
                   TailOf("even", << Pred(<<>>), Pred(<<"chemistry">>) >>) >>)

\* teacher links: one name twice on an info node, and a link with no text
ItemTeachers ==
    Item(T1045, << TailOf("all", << Info(<<"lekciya">>, <<"ivanov", "petrov", "ivanov">>),
                                    Pred(<<"geometry">>) >>),
                   TailOf("odd", << Info(<<"praktika">>, <<"">>), Pred(<<"optics">>) >>) >>)

ParseItems == {ItemAllOddEven, ItemOddEven, ItemBadTime, ItemNoTime, ItemFree, ItemTeachers}

ParseBodies ==
    { << H3(HMon30Dec), LinesDiv(<<i, j>>) >> : i, j \in ParseItems }
    \cup { << H3(HMon30Dec), H3(HTue31Dec), LinesDiv(<<ItemAllOddEven>>) >>,
           << H3(HMon30Dec), LinesDiv(<<>>),
              H3(HTue31Dec), LinesDiv(<<ItemOddEven>>) >>,
           << H3(HMon30Dec), LinesDiv(<<ItemBadTime, ItemFree>>),
              H3(HTue31Dec), LinesDiv(<<ItemNoTime, ItemAllOddEven>>) >> }

WeekTexts == {TxtOdd, TxtOdd2, TxtEven, TxtEven2, TxtNone, <<>>}

ParsePages ==
    { [hasWeek |-> TRUE, weekText |-> w, content |-> TRUE, nodes |-> b] :
          w \in WeekTexts, b \in ParseBodies }
    \cup { [hasWeek |-> FALSE, weekText |-> <<>>, content |-> TRUE, nodes |-> b] :
          b \in ParseBodies }
    \cup { [hasWeek |-> hw, weekText |-> TxtOdd, content |-> FALSE, nodes |-> <<>>] :
          hw \in BOOLEAN }

InitParse ==
    /\ InitClientState
    /\ ttlCfg = DefaultTtl
    /\ maxCfg = DefaultMax
    /\ pPage \in ParsePages
    /\ pDate \in Dates
    /\ pOut = NoOut
    /\ IdleHarness
    /\ IdleFront

\* get_week_schedule's parse of pPage for a request of date pDate
ParseApply ==
    /\ pOut = NoOut
    /\ pOut' = [done |-> TRUE, parse |-> parse_week(pPage)]
    /\ UNCHANGED <<clientVars, pPage, pDate, fnIn, fnOut, botVars, dbVars>>

NextParse == ParseApply

SpecParse == InitParse /\ [][NextParse]_vars

----------------------------------------------------------------------------
(* _format_day_message, lines 420-463: the order in which a day's lessons   *)
(* are printed.  Here a lesson's texts are sequences of character codes:    *)
(* 0 is the space, 1..26 the lower-case letters, 101..126 the same letters  *)
(* in upper case, 201..210 the digits 0..9, 300 the dash.                   *)

\* ord(): the order of the code points; the space, then digits, upper case,
\* lower case, and the dash U+2014 after every letter
Ord(c) ==
    IF c = 0 THEN 32
    ELSE IF c = 300 THEN 8212
    ELSE IF c > 200 THEN 48 + (c - 201)
    ELSE IF c > 100 THEN 1039 + (c - 100)
    ELSE 1071 + c

\* a < b for two str
StrLess(a, b) ==
    SeqLess([i \in 1..Len(a) |-> Ord(a[i])], [i \in 1..Len(b) |-> Ord(b[i])])

\* a < b for two datetime.time
TimeLess(a, b) == a.h * 60 + a.m < b.h * 60 + b.m

\* (subject, kind, subgroup, room, teacher) of a < that of b, as tuples
variant_key_less(a, b) ==
    IF a.subject # b.subject THEN StrLess(a.subject, b.subject)
    ELSE IF a.kind # b.kind THEN StrLess(a.kind, b.kind)
    ELSE IF a.subgroup # b.subgroup THEN StrLess(a.subgroup, b.subgroup)
    ELSE IF a.room # b.room THEN StrLess(a.room, b.room)
    ELSE IF a.teacher # b.teacher THEN StrLess(a.teacher, b.teacher)
    ELSE FALSE

\* line 427: (start, subject, kind, subgroup, room, teacher)
lesson_key_less(a, b) ==
    IF a.start # b.start THEN TimeLess(a.start, b.start) ELSE variant_key_less(a, b)

\* sorted(lessons, key=...): stable
RECURSIVE InsertByLessonKey(_, _)
InsertByLessonKey(sorted, x) ==
    IF sorted = <<>> THEN <<x>>
    ELSE IF lesson_key_less(x, Head(sorted))
         THEN <<x>> \o sorted
         ELSE <<Head(sorted)>> \o InsertByLessonKey(Tail(sorted), x)

RECURSIVE sorted_lessons(_)
sorted_lessons(xs) ==
    IF xs = <<>> THEN <<>>
    ELSE InsertByLessonKey(sorted_lessons(SubSeq(xs, 1, Len(xs) - 1)), xs[Len(xs)])

RECURSIVE InsertByVariantKey(_, _)
InsertByVariantKey(sorted, x) ==
    IF sorted = <<>> THEN <<x>>
    ELSE IF variant_key_less(x, Head(sorted))
         THEN <<x>> \o sorted
         ELSE <<Head(sorted)>> \o InsertByVariantKey(Tail(sorted), x)

RECURSIVE sorted_variants(_)
sorted_variants(xs) ==
    IF xs = <<>> THEN <<>>
    ELSE InsertByVariantKey(sorted_variants(SubSeq(xs, 1, Len(xs) - 1)), xs[Len(xs)])

\* lines 429-436: the start times in the order of their first lesson
RECURSIVE block_order(_, _)
block_order(lessons, seen) ==
    IF lessons = <<>> THEN <<>>
    ELSE IF Head(lessons).start \in seen THEN block_order(Tail(lessons), seen)
    ELSE <<Head(lessons).start>> \o block_order(Tail(lessons), seen \cup {Head(lessons).start})

\* The lessons in the order _format_day_message prints them: block by block,
\* the variants of a block sorted once more (line 443).
format_day_message(lessons) ==
    LET sorted == sorted_lessons(lessons)
        order == block_order(sorted, {})
    IN  Flatten([bi \in 1..Len(order) |->
                    sorted_variants(SelectSeq(sorted, LAMBDA l : l.start = order[bi]))])

----------------------------------------------------------------------------
(* MySQLStorage (src/database.py, lines 129-208): aiogram's FSM storage    *)
(* kept in the table fsm_context.  A str is a sequence of one-character    *)
(* strings; a Python value carries its type in the field py.               *)

None == [py |-> "None"]
PyInt(n) == [py |-> "int", int |-> n]
PyStr(chars) == [py |-> "str", chars |-> chars]
PyList(items) == [py |-> "list", items |-> items]
PyDict(pairs) == [py |-> "dict", pairs |-> pairs]      \* [key, value] in dict order
StateObj(state) == [py |-> "State", state |-> state]  \* aiogram State and its .state

EmptyDict == PyDict(<<>>)

\* bool(v) of None, an int, a str
Truthy(v) ==
    CASE v.py = "None" -> FALSE
      [] v.py = "int" -> v.int # 0
      [] v.py = "str" -> v.chars # <<>>

SignedDecimal(n) == IF n < 0 THEN <<"-">> \o Decimal(0 - n) ELSE Decimal(n)

\* str(v) of None, an int, a str
py_str(v) ==
    CASE v.py = "None" -> <<"N", "o", "n", "e">>
      [] v.py = "int" -> SignedDecimal(v.int)
      [] v.py = "str" -> v.chars

\* sep.join(parts)
RECURSIVE JoinWith(_, _)
JoinWith(sep, parts) ==
    IF parts = <<>> THEN <<>>
    ELSE IF Len(parts) = 1 THEN parts[1]
    ELSE parts[1] \o sep \o JoinWith(sep, Tail(parts))

\* the parts of _build_key, lines 146-156
key_parts(key) ==
    << <<"f", "s", "m">>, py_str(key.bot_id) >>
    \o (IF Truthy(key.business_connection_id)
        THEN << py_str(key.business_connection_id) >> ELSE <<>>)
    \o << py_str(key.chat_id) >>
    \o (IF Truthy(key.thread_id) THEN << py_str(key.thread_id) >> ELSE <<>>)
    \o << py_str(key.user_id), py_str(key.destiny) >>

build_key(key) == JoinWith(<<":">>, key_parts(key))

\* _state_to_str, lines 159-165
state_to_str(state) ==
    IF state.py = "None" THEN None
    ELSE IF state.py = "State" THEN state.state
    ELSE PyStr(py_str(state))

\* --- json.dumps(value, ensure_ascii=False) and json.loads(text)
Quote == "\""
Backslash == "\\"

RECURSIVE escaped(_)
escaped(chars) ==
    IF chars = <<>> THEN <<>>
    ELSE (IF Head(chars) \in {Quote, Backslash} THEN <<Backslash, Head(chars)>>
          ELSE <<Head(chars)>>) \o escaped(Tail(chars))

dumps_str(chars) == <<Quote>> \o escaped(chars) \o <<Quote>>

RECURSIVE json_dumps(_)
RECURSIVE dumps_items(_)
RECURSIVE dumps_pairs(_)
json_dumps(v) ==
    CASE v.py = "None" -> <<"n", "u", "l", "l">>
      [] v.py = "int" -> SignedDecimal(v.int)
      [] v.py = "str" -> dumps_str(v.chars)
      [] v.py = "list" -> <<"[">> \o dumps_items(v.items) \o <<"]">>
      [] v.py = "dict" -> <<"{">> \o dumps_pairs(v.pairs) \o <<"}">>

dumps_items(items) ==
    IF items = <<>> THEN <<>>
    ELSE json_dumps(Head(items))
         \o (IF Len(items) > 1 THEN <<",", " ">> \o dumps_items(Tail(items)) ELSE <<>>)

dumps_pairs(pairs) ==
    IF pairs = <<>> THEN <<>>
    ELSE dumps_str(Head(pairs).key) \o <<":", " ">> \o json_dumps(Head(pairs).value)
         \o (IF Len(pairs) > 1 THEN <<",", " ">> \o dumps_pairs(Tail(pairs)) ELSE <<>>)

\* the parse of a value: whether there is one, the value, the index after it
Parsed(v, next) == [ok |-> TRUE, value |-> v, next |-> next]
NoParse == [ok |-> FALSE, value |-> None, next |-> 0]

skip_ws(s, i) == i + RunLen(s, i, Spaces)

RECURSIVE scan_string(_, _, _)
scan_string(s, i, acc) ==
    IF i > Len(s) THEN NoParse
    ELSE IF s[i] = Quote THEN Parsed(PyStr(acc), i + 1)
    ELSE IF s[i] = Backslash
    THEN IF i + 1 <= Len(s) /\ s[i + 1] \in {Quote, Backslash}
         THEN scan_string(s, i + 2, Append(acc, s[i + 1]))
         ELSE NoParse
    ELSE scan_string(s, i + 1, Append(acc, s[i]))

parse_string(s, i) ==
    IF i <= Len(s) /\ s[i] = Quote THEN scan_string(s, i + 1, <<>>) ELSE NoParse

digits_at(s, i, n, sign) ==
    IF n = 0 THEN NoParse
    ELSE Parsed(PyInt(sign * IntOf(SubSeq(s, i, i + n - 1))), i + n)

parse_number(s, i) ==
    IF s[i] = "-" THEN digits_at(s, i + 1, RunLen(s, i + 1, Digits), 0 - 1)
    ELSE digits_at(s, i, RunLen(s, i, Digits), 1)

\* a later pair of the same key replaces the value of the earlier one
put_pair(pairs, key, value) ==
    IF \E i \in 1..Len(pairs) : pairs[i].key = key
    THEN [i \in 1..Len(pairs) |->
             IF pairs[i].key = key THEN [key |-> key, value |-> value] ELSE pairs[i]]
    ELSE Append(pairs, [key |-> key, value |-> value])

RECURSIVE parse_value(_, _)
RECURSIVE parse_items(_, _, _)
RECURSIVE after_item(_, _, _)
RECURSIVE item_sep(_, _, _)
RECURSIVE parse_pairs(_, _, _)
RECURSIVE after_key(_, _, _)
RECURSIVE after_colon(_, _, _, _)
RECURSIVE after_pair(_, _, _, _)
RECURSIVE pair_sep(_, _, _)

parse_list(s, j) ==
    IF j <= Len(s) /\ s[j] = "]" THEN Parsed(PyList(<<>>), j + 1)
    ELSE parse_items(s, j, <<>>)

parse_dict(s, j) ==
    IF j <= Len(s) /\ s[j] = "}" THEN Parsed(EmptyDict, j + 1)
    ELSE parse_pairs(s, j, <<>>)

parse_value(s, i) ==
    IF i > Len(s) THEN NoParse
    ELSE CASE s[i] = Quote -> parse_string(s, i)
           [] s[i] = "[" -> parse_list(s, skip_ws(s, i + 1))
           [] s[i] = "{" -> parse_dict(s, skip_ws(s, i + 1))
           [] s[i] = "n" -> IF i + 3 <= Len(s) /\ SubSeq(s, i, i + 3) = <<"n", "u", "l", "l">>
                            THEN Parsed(None, i + 4) ELSE NoParse
           [] s[i] = "-" \/ s[i] \in Digits -> parse_number(s, i)
           [] OTHER -> NoParse

parse_items(s, i, acc) == after_item(s, acc, parse_value(s, i))

after_item(s, acc, r) ==
    IF ~r.ok THEN NoParse ELSE item_sep(s, Append(acc, r.value), skip_ws(s, r.next))

item_sep(s, acc, j) ==
    IF j > Len(s) THEN NoParse
    ELSE IF s[j] = "," THEN parse_items(s, skip_ws(s, j + 1), acc)
    ELSE IF s[j] = "]" THEN Parsed(PyList(acc), j + 1)
    ELSE NoParse

parse_pairs(s, i, acc) == after_key(s, acc, parse_string(s, i))

after_key(s, acc, k) ==
    IF ~k.ok THEN NoParse ELSE after_colon(s, acc, k.value.chars, skip_ws(s, k.next))

after_colon(s, acc, key, j) ==
    IF j > Len(s) \/ s[j] # ":" THEN NoParse
    ELSE after_pair(s, acc, key, parse_value(s, skip_ws(s, j + 1)))

after_pair(s, acc, key, r) ==
    IF ~r.ok THEN NoParse ELSE pair_sep(s, put_pair(acc, key, r.value), skip_ws(s, r.next))

pair_sep(s, acc, j) ==
    IF j > Len(s) THEN NoParse
    ELSE IF s[j] = "," THEN parse_pairs(s, skip_ws(s, j + 1), acc)
    ELSE IF s[j] = "}" THEN Parsed(PyDict(acc), j + 1)
    ELSE NoParse

\* the whole text is one value; anything else is a JSONDecodeError
whole_text(s, r) == IF r.ok /\ skip_ws(s, r.next) = Len(s) + 1 THEN r ELSE NoParse

json_loads(s) == whole_text(s, parse_value(s, skip_ws(s, 1)))

\* --- the four storage operations on the table; a row is [state, data_json]
EmptyObject == <<"{", "}">>

Put(table, k, row) == [x \in DOMAIN table \cup {k} |-> IF x = k THEN row ELSE table[x]]

\* mutant of set_state: the statement replaces the whole row
set_state_replacing_row(table, key, state) ==
    Put(table, build_key(key), [state |-> state_to_str(state), data_json |-> EmptyObject])

\* INSERT (fsm_key, state_str, "{}") ON DUPLICATE KEY UPDATE state, lines 167-177
set_state(table, key, state) ==
    IF build_key(key) \in DOMAIN table
    THEN [table EXCEPT ![build_key(key)].state = state_to_str(state)]
    ELSE Put(table, build_key(key),
             [state |-> state_to_str(state), data_json |-> EmptyObject])

\* lines 179-182
get_state(table, key) ==
    IF build_key(key) \in DOMAIN table THEN table[build_key(key)].state ELSE None

\* INSERT (fsm_key, NULL, payload) ON DUPLICATE KEY UPDATE data_json, lines 184-194
set_data(table, key, data) ==
    IF build_key(key) \in DOMAIN table
    THEN [table EXCEPT ![build_key(key)].data_json = json_dumps(data)]
    ELSE Put(table, build_key(key), [state |-> None, data_json |-> json_dumps(data)])

loaded_dict(r) == IF r.ok /\ r.value.py = "dict" THEN r.value ELSE EmptyDict

\* lines 196-205
get_data(table, key) ==
    IF build_key(key) \notin DOMAIN table THEN EmptyDict
    ELSE IF table[build_key(key)].data_json = <<>> THEN EmptyDict
    ELSE loaded_dict(json_loads(table[build_key(key)].data_json))

\* --- inputs: StorageKeys of two chats, the states and the data the
\* handlers of src/main.py keep (keys shortened)
StorageKey(bot, conn, chat, thread, user, destiny) ==
    [bot_id |-> PyInt(bot), business_connection_id |-> conn, chat_id |-> PyInt(chat),
     thread_id |-> thread, user_id |-> PyInt(user), destiny |-> PyStr(destiny)]

Default == <<"d", "e", "f">>

StorageKeys ==
    << StorageKey(1, None, 5, None, 5, Default),
       StorageKey(1, None, 0 - 100, PyInt(7), 5, Default) >>

StateInputs ==
    << None, PyStr(<<"S", ":", "g">>), StateObj(PyStr(<<"R", ":", "r">>)), StateObj(None) >>

KText == <<"t", "e", "x", "t">>
KPhoto == <<"p", "h", "o", "t", "o">>
KPage == <<"p", "a", "g", "e">>
KCourses == <<"c", "s">>
KGroups == <<"g", "s">>
KGroupId == <<"i", "d">>
KTitle == <<"t">>

DataInputs ==
    << EmptyDict,
       PyDict(<< [key |-> KText, value |-> PyStr(<<>>)], [key |-> KPhoto, value |-> None] >>),
       PyDict(<< [key |-> KText, value |-> PyStr(<<"a", " ", Quote, "b", Backslash, ",", "}">>)],
               [key |-> KPhoto, value |-> PyStr(<<"f", "1">>)] >>),
       PyDict(<< [key |-> KPage, value |-> PyInt(10)],
               [key |-> KCourses, value |-> PyList(<<PyInt(1), PyInt(2)>>)],
               [key |-> KGroups,
                value |-> PyList(<< PyDict(<< [key |-> KGroupId, value |-> PyInt(1001)],
                                          [key |-> KTitle, value |-> PyStr(<<"b">>)] >>),
                                  PyDict(<<>>), PyList(<<>>) >>)] >>) >>

\* what has been handed to set_state and set_data for a key so far
NeverSet == [state_set |-> FALSE, state |-> None, data_set |-> FALSE, data |-> EmptyDict,
             by |-> "none"]

Handed(i) == IF i \in DOMAIN fsmSet THEN fsmSet[i] ELSE NeverSet

Existed(i) == build_key(StorageKeys[i]) \in DOMAIN fsmContext

otherVars == <<clientVars, pPage, pDate, pOut, fnIn, fnOut, botVars, poolVars>>

SetState(i, state) ==
    /\ fsmContext' = set_state(fsmContext, StorageKeys[i], state)
    /\ dbOp' = [op |-> "set_state", key |-> i, existed |-> Existed(i)]
    /\ fsmSet' = Put(fsmSet, i, [Handed(i) EXCEPT !.state_set = TRUE, !.state = state,
                                                  !.by = "set_state"])
    /\ UNCHANGED otherVars

SetData(i, data) ==
    /\ fsmContext' = set_data(fsmContext, StorageKeys[i], data)
    /\ dbOp' = [op |-> "set_data", key |-> i, existed |-> Existed(i)]
    /\ fsmSet' = Put(fsmSet, i, [Handed(i) EXCEPT !.data_set = TRUE, !.data = data,
                                                  !.by = "set_data"])
    /\ UNCHANGED otherVars

GetState(i) ==
    /\ dbOp' = [op |-> "get_state", key |-> i, state |-> get_state(fsmContext, StorageKeys[i])]
    /\ UNCHANGED <<fsmContext, fsmSet, otherVars>>

GetData(i) ==
    /\ dbOp' = [op |-> "get_data", key |-> i, data |-> get_data(fsmContext, StorageKeys[i])]
    /\ UNCHANGED <<fsmContext, fsmSet, otherVars>>

\* SpecStorage: set_state, set_data, get_state and get_data in any order on
\* the keys of two chats
InitStorage ==
    /\ InitClientState
    /\ ttlCfg = DefaultTtl
    /\ maxCfg = DefaultMax
    /\ IdleParser
    /\ IdleHarness
    /\ IdleFront

NextStorage ==
    \/ \E i \in DOMAIN StorageKeys, s \in DOMAIN StateInputs : SetState(i, StateInputs[s])
    \/ \E i \in DOMAIN StorageKeys, d \in DOMAIN DataInputs : SetData(i, DataInputs[d])
    \/ \E i \in DOMAIN StorageKeys : GetState(i)
    \/ \E i \in DOMAIN StorageKeys : GetData(i)

SpecStorage == InitStorage /\ [][NextStorage]_vars

----------------------------------------------------------------------------
(* Database.cursor and the calls through it (src/database.py, lines 46-70): *)
(* tasks call execute, fetchone and fetchall; each await is a step.         *)

PoolMaxSize == 10
MaxDbCalls == 2

DbOps == {"execute", "fetchone", "fetchall"}

frontVars == <<clientVars, pPage, pDate, pOut, fnIn, fnOut, botVars, fsmContext, fsmSet, dbOp>>

\* the connection the pool hands out: one that is not acquired
free_conn(used) == CHOOSE k \in 1..PoolMaxSize : k \notin used /\ \A j \in 1..(k - 1) : j \in used

\* a task enters execute/fetchone/fetchall and with it cursor(), lines 48-49:
\* without a pool, RuntimeError
DbStart(c, op) ==
    /\ dbTasks[c].pc = "idle"
    /\ dbTasks[c].calls < MaxDbCalls
    /\ dbTasks' = [dbTasks EXCEPT ![c] =
                      [pc |-> IF pool.open THEN "acquire" ELSE "raised", op |-> op,
                       conn |-> 0, exc |-> FALSE, calls |-> @.calls + 1]]
    /\ UNCHANGED <<pool, frontVars>>

\* conn = await self._pool.acquire(), line 50; acquire waits while every
\* connection is out, and raises when it cannot connect
DbAcquire(c, ok) ==
    /\ dbTasks[c].pc = "acquire"
    /\ Cardinality(pool.used) < PoolMaxSize
    /\ IF ok
       THEN /\ pool' = [pool EXCEPT !.used = @ \cup {free_conn(pool.used)}]
            /\ dbTasks' = [dbTasks EXCEPT ![c].pc = "cursor", ![c].conn = free_conn(pool.used)]
       ELSE /\ dbTasks' = [dbTasks EXCEPT ![c].pc = "raised"]
            /\ UNCHANGED pool
    /\ UNCHANGED frontVars

\* cur = await conn.cursor(), line 51, before the try: when it raises, the
\* exception leaves cursor() and with it the only reference to conn
DbCursor(c, ok) ==
    /\ dbTasks[c].pc = "cursor"
    /\ dbTasks' = [dbTasks EXCEPT ![c].pc = IF ok THEN "body" ELSE "raised",
                                  ![c].conn = IF ok THEN @ ELSE 0]
    /\ UNCHANGED <<pool, frontVars>>

\* the body of the with block, lines 60, 64-65, 69-70: it completes or raises,
\* and the finally clause runs next either way
DbBody(c, ok) ==
    /\ dbTasks[c].pc = "body"
    /\ dbTasks' = [dbTasks EXCEPT ![c].pc = "close", ![c].exc = ~ok]
    /\ UNCHANGED <<pool, frontVars>>

\* finally: await cur.close(); self._pool.release(conn), lines 55-56: when
\* close raises, release is not reached
DbClose(c, ok) ==
    /\ dbTasks[c].pc = "close"
    /\ pool' = IF ok THEN [pool EXCEPT !.used = @ \ {dbTasks[c].conn}] ELSE pool
    /\ dbTasks' = [dbTasks EXCEPT ![c].pc = IF ok /\ ~dbTasks[c].exc THEN "returned"
                                            ELSE "raised",
                                  ![c].conn = 0]
    /\ UNCHANGED frontVars

\* the call is over; the task may call again
DbReturn(c) ==
    /\ dbTasks[c].pc \in {"returned", "raised"}
    /\ dbTasks' = [dbTasks EXCEPT ![c].pc = "idle", ![c].op = "", ![c].exc = FALSE]
    /\ UNCHANGED <<pool, frontVars>>

\* SpecDb: two tasks calling through a pool that is connected or not
InitDb ==
    /\ InitClientState
    /\ ttlCfg = DefaultTtl
    /\ maxCfg = DefaultMax
    /\ IdleParser
    /\ IdleHarness
    /\ IdleBot
    /\ fsmContext = EmptyMap
    /\ fsmSet = EmptyMap
    /\ dbOp = NoDbOp
    /\ pool \in { [open |-> o, used |-> {}] : o \in BOOLEAN }
    /\ dbTasks = [c \in DbTasks |-> IdleDbTask]

NextDb ==
    \/ \E c \in DbTasks, op \in DbOps : DbStart(c, op)
    \/ \E c \in DbTasks, ok \in BOOLEAN : DbAcquire(c, ok)
    \/ \E c \in DbTasks, ok \in BOOLEAN : DbCursor(c, ok)
    \/ \E c \in DbTasks, ok \in BOOLEAN : DbBody(c, ok)
    \/ \E c \in DbTasks, ok \in BOOLEAN : DbClose(c, ok)
    \/ \E c \in DbTasks : DbReturn(c)

SpecDb == InitDb /\ [][NextDb]_vars

----------------------------------------------------------------------------
(* SpecPure: the pure functions, each applied to arguments drawn from       *)
(* bounded sets.                                                            *)

MaxTimeLen == 5
MaxLessons == 3
MaxAnchors == 3

TimeChars == {"0", "2", "5", "9", ":", " "}

\* the sequences over S of length at most n
SeqsUpTo(S, n) == UNION { [1..k -> S] : k \in 0..n }

TimeInputs == SeqsUpTo(TimeChars, MaxTimeLen)

\* headings "пн, <day> <month>" for every month name and a word that is no
\* month, and headings the pattern does not match
HeadingDays == {0, 1, 28, 29, 30, 31, 32}
HeadingWords == { pr[1] : pr \in RU_MONTHS } \cup { <<"d", "e", "k">> }
HeadingOf(day, word) == <<"p", "n", ",", " ">> \o Decimal(day) \o <<" ">> \o word
MonthOfWord(word) ==
    IF \E pr \in RU_MONTHS : pr[1] = word
    THEN (CHOOSE pr \in RU_MONTHS : pr[1] = word)[2] ELSE 0

HeadingInputs ==
    { [text |-> HeadingOf(d, w), day |-> d, month |-> MonthOfWord(w)] :
          d \in HeadingDays, w \in HeadingWords }
    \cup { [text |-> <<"p", "n", " ", "3", "0", " ", "m", "a", "y">>, day |-> 30, month |-> 0],
           [text |-> <<"p", "n", ",", "1", "2", "3", " ", "m", "a", "y">>, day |-> 123, month |-> 0],
           [text |-> <<"p", "n", ",", " ", "m", "a", "y", ",", "7", " ", " ", "m", "a", "y", "9">>,
            day |-> 7, month |-> 5] }

\* December and January of a leap and of a common year, and other months
References ==
    { [y |-> 2023, m |-> 12, d |-> 31], [y |-> 2024, m |-> 1, d |-> 1],
      [y |-> 2024, m |-> 12, d |-> 30], [y |-> 2025, m |-> 1, d |-> 6],
      [y |-> 2024, m |-> 2, d |-> 10],  [y |-> 2025, m |-> 6, d |-> 15] }

\* lessons of two start times, with and without a numbered subgroup
Subgroup(n) == <<16, 4, 0, 200 + n + 1>>      \* "подгруппа n", shortened
SortLessons ==
    { [start |-> st, subject |-> sj, kind |-> <<>>, subgroup |-> sg,
       room |-> <<300>>, teacher |-> <<300>>] :
          st \in { [h |-> 9, m |-> 0], [h |-> 10, m |-> 45] },
          sj \in { <<1>>, <<102>>, <<3>> },
          sg \in { <<>>, Subgroup(1), Subgroup(2) } }

\* StorageKeys of two bots, chats, users and destinies, with and without a
\* business connection and a topic thread
KeyInputs ==
    { StorageKey(bot, conn, chat, thread, user, destiny) :
          bot \in {1, 2}, conn \in {None, PyStr(<<"5">>)}, chat \in {5, 7},
          thread \in {None, PyInt(7)}, user \in {7, 8}, destiny \in {Default, <<"r">>} }

\* anchors: two ids under two titles each, one of them in upper case, and an
\* anchor without text
CatalogAnchors ==
    { [id |-> 1, title |-> <<2>>], [id |-> 1, title |-> <<3>>],
      [id |-> 2, title |-> <<101>>], [id |-> 2, title |-> <<1, 1>>],
      [id |-> 3, title |-> <<>>] }

InitPure ==
    /\ InitClientState
    /\ ttlCfg = DefaultTtl
    /\ maxCfg = DefaultMax
    /\ IdleParser
    /\ IdleFront
    /\ fnOut = NoOut
    /\ \/ \E v \in TimeInputs : fnIn = [fn |-> "_parse_time", value |-> v]
       \/ \E hd \in HeadingInputs, r \in References :
              fnIn = [fn |-> "_extract_date_from_heading", heading |-> hd, reference |-> r]
       \/ \E ls \in SeqsUpTo(SortLessons, MaxLessons) :
              fnIn = [fn |-> "_format_day_message", lessons |-> ls]
       \/ \E an \in SeqsUpTo(CatalogAnchors, MaxAnchors) :
              fnIn = [fn |-> "list_institutes", page |-> [content |-> TRUE, anchors |-> an]]
       \/ \E an \in SeqsUpTo(CatalogAnchors, MaxAnchors) :
              fnIn = [fn |-> "list_groups_by_course",
                      page |-> [kurs |-> TRUE,
                                lis |-> << [isCourse |-> TRUE, course |-> 1, anchors |-> an] >>]]
       \/ \E a \in KeyInputs, b \in KeyInputs :
              fnIn = [fn |-> "_build_key", a |-> a, b |-> b]

ApplyParseTime ==
    /\ fnIn.fn = "_parse_time" /\ fnOut = NoOut
    /\ fnOut' = [done |-> TRUE, value |-> parse_time(fnIn.value)]
    /\ UNCHANGED <<clientVars, pPage, pDate, pOut, fnIn, botVars, dbVars>>

ApplyExtractDate ==
    /\ fnIn.fn = "_extract_date_from_heading" /\ fnOut = NoOut
    /\ fnOut' = [done |-> TRUE,
                 value |-> extract_date_from_heading(fnIn.heading.text, fnIn.reference)]
    /\ UNCHANGED <<clientVars, pPage, pDate, pOut, fnIn, botVars, dbVars>>

ApplyFormatDay ==
    /\ fnIn.fn = "_format_day_message" /\ fnOut = NoOut
    /\ fnOut' = [done |-> TRUE, value |-> format_day_message(fnIn.lessons)]
    /\ UNCHANGED <<clientVars, pPage, pDate, pOut, fnIn, botVars, dbVars>>

\* the parse of list_institutes on the page
ApplyListInstitutes ==
    /\ fnIn.fn = "list_institutes" /\ fnOut = NoOut
    /\ fnOut' = [done |-> TRUE, value |-> parse_institutes(fnIn.page).result]
    /\ UNCHANGED <<clientVars, pPage, pDate, pOut, fnIn, botVars, dbVars>>

\* the parse of list_groups_by_course on the page
ApplyListGroups ==
    /\ fnIn.fn = "list_groups_by_course" /\ fnOut = NoOut
    /\ fnOut' = [done |-> TRUE, value |-> parse_groups(fnIn.page).result]
    /\ UNCHANGED <<clientVars, pPage, pDate, pOut, fnIn, botVars, dbVars>>

\* _build_key on each of two StorageKeys
ApplyBuildKey ==
    /\ fnIn.fn = "_build_key" /\ fnOut = NoOut
    /\ fnOut' = [done |-> TRUE, value |-> <<build_key(fnIn.a), build_key(fnIn.b)>>]
    /\ UNCHANGED <<clientVars, pPage, pDate, pOut, fnIn, botVars, dbVars>>

NextPure ==
    \/ ApplyParseTime
    \/ ApplyExtractDate
    \/ ApplyFormatDay
    \/ ApplyListInstitutes
    \/ ApplyListGroups
    \/ ApplyBuildKey

SpecPure == InitPure /\ [][NextPure]_vars

----------------------------------------------------------------------------
(* The front end: the message handlers of src/main.py (lines 517-852)       *)
(* behind the dispatcher of main() (lines 878-888).                         *)
(* A text of a message, a label or a title is a sequence of character       *)
(* codes: 0 is the space, 1..26 the lower-case letters, 101..126 the same   *)
(* letters in upper case, 201..210 the digits 0..9.  A button label and a   *)
(* command are one code each.  The empty sequence stands for a text that is *)
(* None or "": the handlers treat the two alike.                            *)

BTN_TODAY        == <<901>>
BTN_TOMORROW     == <<902>>
BTN_THIS_WEEK    == <<903>>
BTN_NEXT_WEEK    == <<904>>
BTN_CHANGE_GROUP == <<905>>
BTN_REPORT       == <<906>>
BTN_BACK         == <<907>>
BTN_PAGE_PREV    == <<908>>
BTN_PAGE_NEXT    == <<909>>
BTN_CANCEL       == <<910>>
CmdStartText     == <<951>>     \* "/start"
CmdChangeText    == <<952>>     \* "/change"
Ellipsis         == <<999>>     \* "…"

MenuButtons == {BTN_TODAY, BTN_TOMORROW, BTN_THIS_WEEK, BTN_NEXT_WEEK}

GroupPageSize == 10
CoursePageSize == 12
ReportBodyMax == 3000

Min(a, b) == IF a <= b THEN a ELSE b

\* str.strip() on codes
RECURSIVE LStripCodes(_)
LStripCodes(s) == IF s # <<>> /\ Head(s) = 0 THEN LStripCodes(Tail(s)) ELSE s

RECURSIVE RStripCodes(_)
RStripCodes(s) ==
    IF s # <<>> /\ s[Len(s)] = 0 THEN RStripCodes(SubSeq(s, 1, Len(s) - 1)) ELSE s

StripCodes(s) == RStripCodes(LStripCodes(s))

\* str(n) for n >= 0, in codes
RECURSIVE str_of(_)
str_of(n) == IF n < 10 THEN <<201 + n>> ELSE str_of(n \div 10) \o <<201 + (n % 10)>>

RECURSIVE digits_value(_)
digits_value(s) ==
    IF s = <<>> THEN 0 ELSE 10 * digits_value(SubSeq(s, 1, Len(s) - 1)) + (s[Len(s)] - 201)

\* int(text): ValueError unless the text is a run of digits
int_of_text(s) ==
    IF s # <<>> /\ \A i \in 1..Len(s) : s[i] \in 201..210
    THEN [ok |-> TRUE, value |-> digits_value(s)]
    ELSE [ok |-> FALSE, value |-> 0]

\* dict.get(key) with a default, and dict.update
Get(data, key, default) == IF key \in DOMAIN data THEN data[key] ELSE default

Merge(data, upd) ==
    [k \in DOMAIN data \cup DOMAIN upd |-> IF k \in DOMAIN upd THEN upd[k] ELSE data[k]]

\* sorted(by_course.keys())
RECURSIVE sorted_ints(_)
sorted_ints(S) ==
    IF S = {} THEN <<>>
    ELSE LET m == CHOOSE x \in S : \A y \in S : x <= y
         IN  <<m>> \o sorted_ints(S \ {m})

\* "сибирская школа геонаук" and "siberian school of geosciences", shortened
KwSshgRu == <<19, 9, 2, 0, 19, 11>>
KwSshgEn == <<19, 9, 2, 0, 19, 3>>
LabelSshg == <<119, 119, 107>>      \* "СШГ"

is_sshg(title) == Contains(lower(title), KwSshgRu) \/ Contains(lower(title), KwSshgEn)

label_of(title) == IF is_sshg(title) THEN LabelSshg ELSE title

\* _chunk only lays the buttons out in rows; a keyboard is its option
\* buttons in order and its paging controls
institutes_kb(labels) == [buttons |-> labels, prev |-> FALSE, next |-> FALSE]

paged_kb(options, page, page_size) ==
    [buttons |-> IF page * page_size >= Len(options) THEN <<>>
                 ELSE SubSeq(options, page * page_size + 1,
                             Min(Len(options), page * page_size + page_size)),
     prev |-> page > 0,
     next |-> page * page_size + page_size < Len(options)]

titles_of(groups) == [i \in 1..Len(groups) |-> groups[i].title]

labels_of(institutes) == [i \in 1..Len(institutes) |-> institutes[i].label]

course_texts(courses) == [i \in 1..Len(courses) |-> str_of(courses[i])]

\* what a handler leaves behind: the user's FSM context, the settings store,
\* the kinds of the messages it answered with, the keyboard of the last one
Reply(ctx, replies, kb) ==
    [ctx |-> ctx, store |-> store, replies |-> replies, kb |-> kb, report |-> NoReport]

\* cmd_start; out is what list_institutes did: raised, or returned a list
cmd_start(out) ==
    IF out.kind = "raise"
    THEN Reply([state |-> "institute", data |-> EmptyMap], <<"raised">>, NoKb)
    ELSE IF out.list = <<>>
    THEN Reply([state |-> "institute", data |-> EmptyMap], <<"retry_later">>, NoKb)
    ELSE Reply([state |-> "institute",
                data |-> [institutes |->
                            [i \in 1..Len(out.list) |->
                                [subdiv_id |-> out.list[i].id, title |-> out.list[i].title,
                                 label |-> label_of(out.list[i].title)]]]],
               <<"choose_institute">>,
               institutes_kb([i \in 1..Len(out.list) |-> label_of(out.list[i].title)]))

\* by_course={str(k): [...]} of line 588
by_course_data(map) ==
    [s \in { str_of(c) : c \in DOMAIN map } |->
        map[CHOOSE c \in DOMAIN map : str_of(c) = s]]

\* on_setup_institute once an institute is selected; out is what
\* list_groups_by_course did
institute_selected(ctx, selected, out) ==
    IF out.kind = "raise" THEN Reply(ctx, <<"raised">>, NoKb)
    ELSE IF DOMAIN out.map = {} THEN Reply(ctx, <<"no_courses">>, NoKb)
    ELSE Reply([state |-> "course",
                data |-> Merge(ctx.data,
                               [subdiv_id |-> selected.subdiv_id,
                                courses |-> sorted_ints(DOMAIN out.map),
                                by_course |-> by_course_data(out.map)])],
               <<"choose_course">>,
               paged_kb(course_texts(sorted_ints(DOMAIN out.map)), 0, CoursePageSize))

\* next((i for i in items if i[field] == text), None): index or 0
first_with(items, field, text) ==
    LET at == { i \in 1..Len(items) : items[i][field] = text }
    IN  IF at = {} THEN 0 ELSE CHOOSE i \in at : \A j \in at : i <= j

on_setup_institute(ctx, msg, inst_out, groups_out) ==
    IF Get(ctx.data, "institutes", <<>>) = <<>> THEN cmd_start(inst_out)
    ELSE IF msg.text = BTN_CANCEL THEN Reply(ClearCtx, <<"ok">>, NoKb)
    ELSE IF first_with(ctx.data.institutes, "label", msg.text) = 0
    THEN Reply(ctx, <<"choose_institute_by_button">>,
               institutes_kb(labels_of(ctx.data.institutes)))
    ELSE institute_selected(
             ctx, ctx.data.institutes[first_with(ctx.data.institutes, "label", msg.text)],
             groups_out)

\* on_setup_course once the text is a course of the list
course_selected(ctx, course) ==
    IF Get(Get(ctx.data, "by_course", EmptyMap), str_of(course), <<>>) = <<>>
    THEN Reply(ctx, <<"no_groups">>, NoKb)
    ELSE Reply([state |-> "group",
                data |-> Merge(ctx.data,
                               [course |-> course, group_page |-> 0,
                                groups |-> sort_by_title(ctx.data.by_course[str_of(course)])])],
               <<"choose_group">>,
               paged_kb(titles_of(sort_by_title(ctx.data.by_course[str_of(course)])),
                        0, GroupPageSize))

course_kb(ctx) == paged_kb(course_texts(Get(ctx.data, "courses", <<>>)), 0, CoursePageSize)

on_setup_course(ctx, msg) ==
    IF Get(ctx.data, "courses", <<>>) = <<>>
    THEN Reply(ClearCtx, <<"courses_empty">>, NoKb)
    ELSE IF msg.text = BTN_CANCEL THEN Reply(ClearCtx, <<"ok">>, NoKb)
    ELSE IF msg.text = BTN_BACK
    THEN Reply([ctx EXCEPT !.state = "institute"], <<"choose_institute">>,
               institutes_kb(labels_of(Get(ctx.data, "institutes", <<>>))))
    ELSE IF ~int_of_text(StripCodes(msg.text)).ok
    THEN Reply(ctx, <<"choose_course_by_button">>, course_kb(ctx))
    ELSE IF int_of_text(StripCodes(msg.text)).value \notin Range(ctx.data.courses)
    THEN Reply(ctx, <<"choose_course_by_button">>, course_kb(ctx))
    ELSE course_selected(ctx, int_of_text(StripCodes(msg.text)).value)

\* mutant of next_page: the page number is not held at the last page
next_page_unclamped(n, page) == page + 1

\* page = min(max(0, (len(titles) - 1) // 10), page + 1), line 664
next_page(n, page) == Min(Max(0, (n - 1) \div GroupPageSize), page + 1)

\* page = max(0, page - 1), line 659
prev_page(page) == Max(0, page - 1)

\* mutant of selected_group: the title is matched without regard to case
selected_group_ignoring_case(groups, text) ==
    LET at == { i \in 1..Len(groups) : lower(groups[i].title) = lower(text) }
    IN  IF at = {} THEN 0 ELSE CHOOSE i \in at : \A j \in at : i <= j

\* next((g for g in groups if g.title == (message.text or "")), None), line 669
selected_group(groups, text) == first_with(groups, "title", text)

group_kb(groups, page) == paged_kb(titles_of(groups), page, GroupPageSize)

\* on_setup_group with the sorted groups and the page of the FSM data
setup_group(ctx, msg, u, groups, page) ==
    IF msg.text = BTN_CANCEL THEN Reply(ClearCtx, <<"ok">>, NoKb)
    ELSE IF msg.text = BTN_BACK
    THEN Reply([ctx EXCEPT !.state = "course"], <<"choose_course">>, course_kb(ctx))
    ELSE IF msg.text = BTN_PAGE_PREV
    THEN Reply([ctx EXCEPT !.data = Merge(@, [group_page |-> prev_page(page)])],
               <<"choose_group">>, group_kb(groups, prev_page(page)))
    ELSE IF msg.text = BTN_PAGE_NEXT
    THEN Reply([ctx EXCEPT !.data = Merge(@, [group_page |-> next_page(Len(groups), page)])],
               <<"choose_group">>, group_kb(groups, next_page(Len(groups), page)))
    ELSE IF selected_group(groups, msg.text) = 0
    THEN Reply(ctx, <<"choose_group_by_button">>, group_kb(groups, page))
    ELSE [ctx |-> ClearCtx,
          store |-> [store EXCEPT ![u] =
                        [set |-> TRUE,
                         group_id |-> groups[selected_group(groups, msg.text)].id,
                         group_title |-> groups[selected_group(groups, msg.text)].title,
                         subdiv_id |-> Get(ctx.data, "subdiv_id", NoId),
                         course |-> Get(ctx.data, "course", NoId)]],
          replies |-> <<"group_set">>, kb |-> NoKb, report |-> NoReport]

on_setup_group(ctx, msg, u) ==
    IF Get(ctx.data, "groups", <<>>) = <<>>
    THEN Reply(ClearCtx, <<"groups_empty">>, NoKb)
    ELSE setup_group(ctx, msg, u, sort_by_title(ctx.data.groups),
                     Get(ctx.data, "group_page", 0))

NoPhoto == <<>>

cmd_report ==
    Reply([state |-> "report", data |-> [report_text |-> <<>>, report_photo |-> NoPhoto]],
          <<"describe_problem">>, NoKb)

\* body = report_text.strip(), cut at 3000 characters (lines 750-752)
report_body(report_text) ==
    IF Len(StripCodes(report_text)) > ReportBodyMax
    THEN SubSeq(StripCodes(report_text), 1, ReportBodyMax) \o Ellipsis
    ELSE StripCodes(report_text)

\* lines 736-776: the report is composed, sent to the admin when
\* ADMIN_USER_ID > 0 (a failure of the send is logged), the flow is closed
send_report(report_text, report_photo, u, delivered) ==
    [ctx |-> ClearCtx, store |-> store, replies |-> <<"thanks">>, kb |-> NoKb,
     report |-> [composed |-> TRUE,
                 body |-> report_body(report_text),
                 photo |-> report_photo,
                 group |-> IF store[u].set THEN store[u].group_title ELSE <<>>,
                 sent |-> adminUserId > 0 /\ delivered]]

\* lines 708-712
incoming_text(msg) ==
    IF msg.caption # <<>> THEN StripCodes(msg.caption)
    ELSE IF msg.text # <<>> THEN StripCodes(msg.text)
    ELSE <<>>

\* on_report_message from line 726 on, with the report text and photo that
\* lines 704-724 arrive at
report_step(ctx, msg, u, report_text, report_photo, delivered) ==
    IF report_text = <<>> /\ report_photo # NoPhoto /\ msg.photo # <<>> /\ msg.caption = <<>>
    THEN Reply([ctx EXCEPT !.data = Merge(@, [report_text |-> report_text,
                                              report_photo |-> report_photo])],
               <<"photo_received">>, NoKb)
    ELSE IF report_text = <<>> /\ report_photo = NoPhoto
    THEN Reply([ctx EXCEPT !.data = Merge(@, [report_text |-> report_text,
                                              report_photo |-> report_photo])],
               <<"need_text">>, NoKb)
    ELSE send_report(report_text, report_photo, u, delivered)

on_report_message(ctx, msg, u, delivered) ==
    IF msg.text = BTN_CANCEL THEN Reply(ClearCtx, <<"ok">>, NoKb)
    ELSE IF msg.photo # <<>> /\ Get(ctx.data, "report_photo", NoPhoto) # NoPhoto
    THEN Reply(ctx, <<"one_photo_only">>, NoKb)
    ELSE IF incoming_text(msg) \in MenuButtons \cup {BTN_CHANGE_GROUP, BTN_REPORT}
    THEN Reply(ctx, <<"describe_in_text">>, NoKb)
    ELSE report_step(ctx, msg, u,
                     IF incoming_text(msg) # <<>> THEN incoming_text(msg)
                     ELSE Get(ctx.data, "report_text", <<>>),
                     IF msg.photo # <<>> THEN <<msg.photo[Len(msg.photo)]>>
                     ELSE Get(ctx.data, "report_photo", NoPhoto),
                     delivered)

\* on_menu: _ensure_user_ready, then _send_day or _send_week, whose answers
\* are one of `sent`
on_menu(ctx, msg, u, sent) ==
    IF ~store[u].set THEN Reply(ctx, <<"choose_group_first">>, NoKb)
    ELSE Reply(ctx, sent, NoKb)

\* what _send_day and _send_week answer with
SendDayAnswers == { <<"day">>, <<"not_found">>, <<"retry_later">> }
SendWeekAnswers == { <<"title", "day">>, <<"title", "not_found">>, <<"retry_later">> }

menu_answers(text) ==
    IF text \in {BTN_TODAY, BTN_TOMORROW} THEN SendDayAnswers ELSE SendWeekAnswers

\* --- inputs of the front end
MaxGroups == 11

BotInstitutes ==
    << [id |-> 683, title |-> <<9, 14>>],
       [id |-> 5, title |-> <<119, 9, 2, 0, 119, 11>>] >>

\* course 1 has MaxGroups groups titled a, b, c, ...; course 2 has three
\* groups of which two share the title "Ba" and one is titled "ba"
BotCatalog ==
    [c \in {1, 2} |->
        IF c = 1 THEN [i \in 1..MaxGroups |-> [id |-> 1000 + i, title |-> <<i>>]]
        ELSE << [id |-> 2001, title |-> <<102, 1>>], [id |-> 2002, title |-> <<2, 1>>],
                [id |-> 2003, title |-> <<102, 1>>] >>]

InstituteOutcomes ==
    { [kind |-> "raise", list |-> <<>>], [kind |-> "list", list |-> <<>>],
      [kind |-> "list", list |-> BotInstitutes] }

GroupsOutcomes ==
    { [kind |-> "raise", map |-> EmptyMap], [kind |-> "map", map |-> EmptyMap],
      [kind |-> "map", map |-> BotCatalog] }

AdminIds == {0, 77}

Text(t) == [text |-> t, caption |-> <<>>, photo |-> <<>>]
Photo(caption) == [text |-> <<>>, caption |-> caption, photo |-> <<"small", "large">>]
Sticker == [text |-> <<>>, caption |-> <<>>, photo |-> <<>>]

BotTexts ==
    { CmdStartText, BTN_CHANGE_GROUP, BTN_REPORT, BTN_CANCEL, BTN_BACK, BTN_PAGE_PREV,
      BTN_PAGE_NEXT, BTN_TODAY, BTN_THIS_WEEK,
      <<9, 14>>, LabelSshg,                     \* institute labels
      <<202>>, <<0, 203, 0>>, <<209>>,          \* "1", " 2 ", "8"
      <<1>>, <<MaxGroups>>, <<102, 1>>, <<2, 1>>, \* group titles
      <<24>>, <<0, 24, 0>> }                    \* "x", " x "

Messages ==
    { Text(t) : t \in BotTexts }
    \cup { Photo(<<>>), Photo(<<24>>), Photo(BTN_TODAY), Sticker }

\* --- the dispatcher: the first registered handler whose filter matches
\* takes the message (lines 878-888)

Deliver(u, msg, handler, r) ==
    /\ fsm' = [fsm EXCEPT ![u] = r.ctx]
    /\ store' = r.store
    /\ last' = [user |-> u, msg |-> msg, handler |-> handler, replies |-> r.replies,
                kb |-> r.kb, report |-> r.report]
    /\ UNCHANGED <<adminUserId, clientVars, pPage, pDate, pOut, fnIn, fnOut, dbVars>>

IsCommand(msg) == msg.text \in {CmdStartText, CmdChangeText, BTN_CHANGE_GROUP, BTN_REPORT}

CmdStart(u, msg, out) ==
    /\ msg.text = CmdStartText
    /\ Deliver(u, msg, "cmd_start", cmd_start(out))

CmdChange(u, msg, out) ==
    /\ msg.text \in {CmdChangeText, BTN_CHANGE_GROUP}
    /\ Deliver(u, msg, "cmd_change", cmd_start(out))

CmdReport(u, msg) ==
    /\ msg.text = BTN_REPORT
    /\ Deliver(u, msg, "cmd_report", cmd_report)

OnSetupInstitute(u, msg, inst_out, groups_out) ==
    /\ ~IsCommand(msg)
    /\ fsm[u].state = "institute"
    /\ Deliver(u, msg, "on_setup_institute",
               on_setup_institute(fsm[u], msg, inst_out, groups_out))

OnSetupCourse(u, msg) ==
    /\ ~IsCommand(msg)
    /\ fsm[u].state = "course"
    /\ Deliver(u, msg, "on_setup_course", on_setup_course(fsm[u], msg))

OnSetupGroup(u, msg) ==
    /\ ~IsCommand(msg)
    /\ fsm[u].state = "group"
    /\ Deliver(u, msg, "on_setup_group", on_setup_group(fsm[u], msg, u))

OnReportMessage(u, msg, delivered) ==
    /\ ~IsCommand(msg)
    /\ fsm[u].state = "report"
    /\ Deliver(u, msg, "on_report_message", on_report_message(fsm[u], msg, u, delivered))

OnMenu(u, msg, sent) ==
    /\ ~IsCommand(msg)
    /\ fsm[u].state = "none"
    /\ msg.text \in MenuButtons
    /\ sent \in menu_answers(msg.text)
    /\ Deliver(u, msg, "on_menu", on_menu(fsm[u], msg, u, sent))

\* SpecBot: one user writing to the bot, message by message
InitBot ==
    /\ InitClientState
    /\ ttlCfg = DefaultTtl
    /\ maxCfg = DefaultMax
    /\ IdleParser
    /\ IdleHarness
    /\ IdleChat
    /\ adminUserId \in AdminIds
    /\ IdleDb

NextBot ==
    \/ \E u \in Users, msg \in Messages, out \in InstituteOutcomes : CmdStart(u, msg, out)
    \/ \E u \in Users, msg \in Messages, out \in InstituteOutcomes : CmdChange(u, msg, out)
    \/ \E u \in Users, msg \in Messages : CmdReport(u, msg)
    \/ \E u \in Users, msg \in Messages, io \in InstituteOutcomes, go \in GroupsOutcomes :
           OnSetupInstitute(u, msg, io, go)
    \/ \E u \in Users, msg \in Messages : OnSetupCourse(u, msg)
    \/ \E u \in Users, msg \in Messages : OnSetupGroup(u, msg)
    \/ \E u \in Users, msg \in Messages, delivered \in BOOLEAN :
           OnReportMessage(u, msg, delivered)
    \/ \E u \in Users, msg \in Messages, sent \in SendDayAnswers \cup SendWeekAnswers :
           OnMenu(u, msg, sent)

SpecBot == InitBot /\ [][NextBot]_vars

----------------------------------------------------------------------------
(* Claims *)

WeekTasks == { t \in Tasks : tasks[t].req.op = "week" /\ tasks[t].pc # "idle" }

\* C1 (as stated): a get_week_schedule call made while the parsed cache holds
\* a live entry of the same group and the same ISO (year, week) is a cache
\* hit: it performs no fetch and no parse.
C1_SameIsoWeekIsHit ==
    \A t \in WeekTasks :
        tasks[t].sameWeek =>
            tasks[t].hit /\ tasks[t].fetches = 0 /\ tasks[t].parses = 0

\* C2: every parsed-cache hit returns an entry whose age is at most the
\* effective TTL, and a lookup made at T + TTL + 1 or later of an entry
\* inserted at T is a miss that goes on to fetch.
C2_HitsAreFresh ==
    \A t \in WeekTasks :
        /\ tasks[t].hit => tasks[t].hitAge <= Max(1, ttlCfg)
        /\ tasks[t].ownStale => (~tasks[t].hit /\ tasks[t].fetches = 1)

C2_Witness ==
    \E t \in WeekTasks : tasks[t].ownStale /\ tasks[t].fetches = 1

Transient == {"http503", "conn", "timeout"}

\* C4 (as stated): a transient failure surfaces to the caller only after three
\* GETs; a 503 on the first or second attempt is retried.
C4_TransientRetriedThreeTimes ==
    \A t \in Tasks :
        (tasks[t].pc = "raised" /\ tasks[t].err \in Transient) => tasks[t].gets = 3

\* what the page itself says about its week: odd, even or nothing
PageStates(page) ==
    IF ~page.hasWeek THEN "none"
    ELSE IF Contains(page.weekText, KwNechet) \/ Contains(page.weekText, KwNechyot)
         THEN "odd"
    ELSE IF Contains(page.weekText, KwChetn) \/ Contains(page.weekText, KwChyotn)
         THEN "even"
    ELSE "none"

\* C5 (as stated): when the page carries an explicit indicator, the returned
\* is_odd_week is what the page states.
C5_PageIndicatorIsReturned ==
    (pOut.done /\ PageStates(pPage) # "none") =>
        (pOut.parse.result.is_odd_week <=> (PageStates(pPage) = "odd"))

\* C6 (as stated): when the page carries no indicator, the returned is_odd_week
\* is the parity of the ISO week number of the requested date.
C6_IsoParityFallback ==
    (pOut.done /\ PageStates(pPage) = "none") =>
        (pOut.parse.result.is_odd_week <=> (IsoYearWeek(pDate)[2] % 2 = 1))

\* the items of the page's lesson-line containers
PageItems(page) ==
    UNION { Range(page.nodes[i].items) : i \in 1..Len(page.nodes) }

TailSubjects(tail) ==
    { tail.nodes[i].words : i \in { j \in 1..Len(tail.nodes) :
                                      tail.nodes[j].cls = "pred" /\ tail.nodes[j].words # <<>> } }

ItemSubjectsOfWeek(it, week) ==
    UNION { TailSubjects(it.tails[k]) :
              k \in { j \in 1..Len(it.tails) : it.tails[j].week = week } }

SubjectsOfWeek(page, week) ==
    UNION { ItemSubjectsOfWeek(it, week) : it \in PageItems(page) }

EmittedSubjects(result) ==
    UNION { { result.days[i].lessons[k].subject : k \in 1..Len(result.days[i].lessons) } :
              i \in 1..Len(result.days) }

Matching(odd) == IF odd THEN "odd" ELSE "even"
NonMatching(odd) == IF odd THEN "even" ELSE "odd"

IsFree(tail) == TailText(tail) = FreeMarker

\* C7: the lessons emitted come only from all-week tails and tails of the
\* resolved parity, never from a tail of the other parity; and an item with a
\* valid time that has both an all-week tail and a tail of the resolved parity
\* has the lessons of both in the output.
C7_OnlyMatchingParityTails ==
    pOut.done =>
        LET odd == pOut.parse.result.is_odd_week
            out == EmittedSubjects(pOut.parse.result)
        IN  /\ out \subseteq SubjectsOfWeek(pPage, "all") \cup SubjectsOfWeek(pPage, Matching(odd))
            /\ out \cap SubjectsOfWeek(pPage, NonMatching(odd)) = {}
            /\ \A i \in 1..Len(pPage.nodes) :
                 (pPage.nodes[i].tag = "h3" /\ find_lines(pPage.nodes, i) # 0) =>
                   \A it \in Range(pPage.nodes[find_lines(pPage.nodes, i)].items) :
                     LET alls == { k \in 1..Len(it.tails) : it.tails[k].week = "all" }
                         mine == { k \in 1..Len(it.tails) : it.tails[k].week = Matching(odd) }
                         first == CHOOSE k \in mine : \A j \in mine : k <= j
                     IN  (it.hasTime /\ parse_time(it.time).ok /\ alls # {} /\ mine # {}) =>
                           /\ \A k \in alls : IsFree(it.tails[k]) \/ TailSubjects(it.tails[k]) \subseteq out
                           /\ IsFree(it.tails[first]) \/ TailSubjects(it.tails[first]) \subseteq out

C7_Witness ==
    /\ pOut.done
    /\ ItemAllOddEven \in PageItems(pPage)
    /\ pOut.parse.result.is_odd_week
    /\ {<<"algebra">>, <<"physics">>} \subseteq EmittedSubjects(pOut.parse.result)

\* the page lacks the container its operation depends on
MissingContainer(op, page) ==
    CASE op = "week"       -> ~page.content
      [] op = "institutes" -> ~page.content
      [] op = "groups"     -> ~page.kurs

\* C8 (as stated): an operation whose page lacks its container ends in a
\* structural failure, never in a returned (empty) result.
C8_MissingContainerIsStructuralFailure ==
    \A t \in Tasks :
        (tasks[t].page # NoPage /\ MissingContainer(tasks[t].req.op, tasks[t].page)) =>
            (tasks[t].pc = "raised" /\ tasks[t].err = "structural")

\* a result built from the whole of a page that has its content container
FullyBuilt(result) ==
    \E page \in PagesFor("week") : page.content /\ result = parse_week(page).result

\* C9: every entry of the parsed cache is a fully built result at every
\* suspension point, and a step that leaves a request suspended, failed or
\* abandoned adds no entry to the parsed cache.
C9_AtomicInsertion ==
    /\ [](\A i \in 1..Len(parsedCache) : FullyBuilt(parsedCache[i].result))
    /\ [][\A t \in Tasks :
            (tasks'[t] # tasks[t] /\ tasks'[t].pc \in {"fetching", "raised", "cancelled"})
                => Range(parsedCache') \subseteq Range(parsedCache)]_vars

C9_Witness ==
    \E t, u \in Tasks :
        /\ tasks[t].pc = "cancelled"
        /\ tasks[u].pc = "fetching"
        /\ tasks[u].req = tasks[t].req
        /\ parsed_cache_key(tasks[t].req.group, tasks[t].req.date) \notin Keys(parsedCache)

\* C10: an operation whose fetch failed has raised a network failure and
\* returned nothing, and the failing step leaves the raw-response cache, the
\* parsed cache and the catalog caches as they were.
C10_FailedFetchRaises ==
    /\ [](\A t \in Tasks :
            tasks[t].err # "" =>
                /\ tasks[t].pc = "raised"
                /\ tasks[t].err \in Failures
                /\ tasks[t].ret = NoRet)
    /\ [][\A t \in Tasks :
            (tasks[t].pc = "fetching" /\ tasks'[t].err # "")
                => /\ rawCache' = rawCache
                   /\ parsedCache' = parsedCache
                   /\ institutesCache' = institutesCache
                   /\ groupsCache' = groupsCache]_vars

C10_Witness ==
    \E t \in Tasks :
        /\ tasks[t].pc = "raised"
        /\ tasks[t].req.op = "week"
        /\ parsedCache # <<>>
        /\ text_key(tasks[t].req) \notin Keys(rawCache)

\* C11: a fetch answered with a non-5xx HTTP error status has failed at once:
\* the operation has raised that error after exactly one GET and has
\* returned nothing.
C11_ClientErrorFailsAtOnce ==
    \A t \in Tasks :
        tasks[t].err = "http404" =>
            /\ tasks[t].pc = "raised"
            /\ tasks[t].gets = 1
            /\ tasks[t].fetches = 1
            /\ tasks[t].ret = NoRet

C11_Witness ==
    \E t \in Tasks :
        tasks[t].err = "http404" /\ tasks[t].pc = "raised" /\ tasks[t].gets = 1

\* C12 (as stated): every failure raised by a client operation is caught by
\* the handler that made the call and answered with a retry-later message; it
\* never leaves the handler.
C12_HandlersCatchEveryFailure ==
    \A t \in Tasks :
        tasks[t].pc = "raised" =>
            /\ ~tasks[t].propagated
            /\ tasks[t].reply = <<"retry_later">>

\* the number of a numbered subgroup; the empty subgroup ranks after them all
SubgroupRank(sg) == IF sg = <<>> THEN 1000 ELSE sg[Len(sg)] - 201

\* str.lower() on character codes
LowerStr(str) == [i \in 1..Len(str) |-> IF str[i] > 100 /\ str[i] <= 126 THEN str[i] - 100
                                                                            ELSE str[i]]

\* the order of section 4.5: start, subgroup (numbered ascending, then the
\* empty one), subject case-insensitively, kind, room, teacher
SpecOrderLess(a, b) ==
    IF a.start # b.start THEN TimeLess(a.start, b.start)
    ELSE IF SubgroupRank(a.subgroup) # SubgroupRank(b.subgroup)
         THEN SubgroupRank(a.subgroup) < SubgroupRank(b.subgroup)
    ELSE IF LowerStr(a.subject) # LowerStr(b.subject)
         THEN StrLess(LowerStr(a.subject), LowerStr(b.subject))
    ELSE IF a.kind # b.kind THEN StrLess(a.kind, b.kind)
    ELSE IF a.room # b.room THEN StrLess(a.room, b.room)
    ELSE IF a.teacher # b.teacher THEN StrLess(a.teacher, b.teacher)
    ELSE FALSE

\* C13 (as stated): the lessons of a day are printed in the order start time,
\* subgroup (numbered before empty), subject case-insensitively, kind, room,
\* teacher; of two lessons with one start time the one with a numbered
\* subgroup comes before the one with an empty subgroup.
C13_SubgroupOrdersBeforeSubject ==
    (fnOut.done /\ fnIn.fn = "_format_day_message") =>
        \A i, j \in 1..Len(fnOut.value) :
            i < j => ~SpecOrderLess(fnOut.value[j], fnOut.value[i])

\* a string of the strict shape HH:MM within 00:00..23:59
StrictHHMM(v) ==
    /\ Len(v) = 5
    /\ v[3] = ":"
    /\ \A i \in {1, 2, 4, 5} : v[i] \in Digits
    /\ 10 * DigitVal(v[1]) + DigitVal(v[2]) <= 23
    /\ 10 * DigitVal(v[4]) + DigitVal(v[5]) <= 59

\* C14 (as stated): _parse_time returns the hour and minute of every string of
\* the strict shape HH:MM with hour 0..23 and minute 0..59, and no result for
\* every other string.
C14_ExactlyStrictHHMM ==
    (fnOut.done /\ fnIn.fn = "_parse_time") =>
        IF StrictHHMM(fnIn.value)
        THEN fnOut.value = [ok |-> TRUE,
                            h |-> 10 * DigitVal(fnIn.value[1]) + DigitVal(fnIn.value[2]),
                            m |-> 10 * DigitVal(fnIn.value[4]) + DigitVal(fnIn.value[5])]
        ELSE ~fnOut.value.ok

\* the year the specification resolves a heading's month to
ExpectedYear(reference, month) ==
    CASE reference.m = 12 /\ month = 1 -> reference.y + 1
      [] reference.m = 1 /\ month = 12 -> reference.y - 1
      [] OTHER -> reference.y

\* C15: a date resolved from a heading has the year reference.year + 1 for a
\* December reference and a January heading, reference.year - 1 for a January
\* reference and a December heading, and reference.year otherwise.
C15_YearAcrossNewYear ==
    (fnOut.done /\ fnIn.fn = "_extract_date_from_heading" /\ fnOut.value.kind = "date") =>
        fnOut.value.date.y = ExpectedYear(fnIn.reference, fnIn.heading.month)

C15_Witness ==
    /\ fnOut.done /\ fnIn.fn = "_extract_date_from_heading"
    /\ fnIn.reference.m = 1 /\ fnIn.heading.month = 12
    /\ fnOut.value.kind = "date"
    /\ fnOut.value.date.y = fnIn.reference.y - 1

\* the number of days of a month, from the days before each month
MonthLength(y, m) ==
    (IF m = 12 THEN 365 + (IF IsLeap(y) THEN 1 ELSE 0) ELSE DaysBeforeMonth(y, m + 1))
    - DaysBeforeMonth(y, m)

RealDate(y, m, d) == m \in 1..12 /\ 1 <= d /\ d <= MonthLength(y, m)

\* C16: resolving a heading never raises; a heading whose day does not exist
\* in the resolved month and year gives no date; a date that is returned is a
\* valid calendar date with the heading's day and month.
C16_ImpossibleDayGivesNoDate ==
    (fnOut.done /\ fnIn.fn = "_extract_date_from_heading") =>
        /\ fnOut.value.kind \in {"date", "none"}
        /\ fnOut.value.kind = "date" =>
              /\ RealDate(fnOut.value.date.y, fnOut.value.date.m, fnOut.value.date.d)
              /\ fnOut.value.date.d = fnIn.heading.day
              /\ fnOut.value.date.m = fnIn.heading.month
        /\ (/\ fnIn.heading.month \in 1..12
            /\ ~RealDate(ExpectedYear(fnIn.reference, fnIn.heading.month),
                         fnIn.heading.month, fnIn.heading.day))
              => fnOut.value.kind = "none"

C16_Witness ==
    /\ fnOut.done /\ fnIn.fn = "_extract_date_from_heading"
    /\ fnIn.heading.day = 29 /\ fnIn.heading.month = 2
    /\ ~IsLeap(fnIn.reference.y)
    /\ fnOut.value.kind = "none"

\* C17 (as stated): the GET of get_week_schedule(group, date) carries
\* group=<id> and the date as YYYY-MM-DD, month and day zero-padded.
C17_DateParamIsZeroPadded ==
    \A t \in WeekTasks :
        tasks[t].gets >= 1 =>
            /\ params_of(tasks[t].req).group = tasks[t].req.group
            /\ params_of(tasks[t].req).date = isoformat(tasks[t].req.date)

\* a list with every id at most once, in the order of the lower-cased titles
UniqueAndSorted(list) ==
    \A i, j \in 1..Len(list) :
        i < j => /\ list[i].id # list[j].id
                 /\ ~SeqLess(lower(list[j].title), lower(list[i].title))

\* C18 (as stated): the list of list_institutes and every per-course list of
\* list_groups_by_course holds each id at most once and is sorted
\* case-insensitively by title, whatever anchors the page holds.
C18_CatalogsUniqueAndSorted ==
    /\ (fnOut.done /\ fnIn.fn = "list_institutes") => UniqueAndSorted(fnOut.value)
    /\ (fnOut.done /\ fnIn.fn = "list_groups_by_course") =>
          \A c \in DOMAIN fnOut.value : UniqueAndSorted(fnOut.value[c])

\* the lesson-line container of the heading at nodes[i] itself: the first
\* container after it that comes before the next heading, or 0
OwnLines(nodes, i) ==
    LET j == find_lines(nodes, i)
    IN  IF j # 0 /\ \A k \in (i + 1)..(j - 1) : nodes[k].tag # "h3" THEN j ELSE 0

\* the headings that have a container of their own, in document order
HeadingsWithOwnLines(nodes) ==
    LET at == SelectSeq([i \in 1..Len(nodes) |-> i],
                        LAMBDA i : nodes[i].tag = "h3" /\ OwnLines(nodes, i) # 0)
    IN  [k \in 1..Len(at) |-> nodes[at[k]].heading]

\* C19 (as stated): the days of a result are, in document order, exactly the
\* headings that have a lesson-line container of their own; a heading
\* without one contributes no DaySchedule, not even with the lessons of a
\* later heading's container.
C19_OnlyHeadingsWithOwnContainer ==
    (pOut.done /\ pPage.content) =>
        [i \in 1..Len(pOut.parse.result.days) |-> pOut.parse.result.days[i].heading]
            = HeadingsWithOwnLines(pPage.nodes)

\* an item the parser drops: no time element, or a time that does not parse
BadItem(it) == ~it.hasTime \/ ~parse_time(it.time).ok

\* the page without its bad items and without its subjects of empty text
WithoutBad(page) ==
    [page EXCEPT !.nodes =
        [i \in 1..Len(page.nodes) |->
            [page.nodes[i] EXCEPT !.items =
                LET good == SelectSeq(page.nodes[i].items, LAMBDA it : ~BadItem(it))
                IN  [k \in 1..Len(good) |->
                        [good[k] EXCEPT !.tails =
                            [j \in 1..Len(good[k].tails) |->
                                [good[k].tails[j] EXCEPT !.nodes =
                                    SelectSeq(good[k].tails[j].nodes,
                                              LAMBDA n : ~(n.cls = "pred" /\ n.words = <<>>))]]]]]]]

\* C20: an item whose time is missing or does not parse, and a subject of
\* empty text, is dropped alone: the parse ends in a result, and that result
\* is the one of the same page without the bad items and empty subjects.
C20_BadItemDroppedAlone ==
    pOut.done =>
        /\ pOut.parse.outcome = "result"
        /\ pOut.parse.result = parse_week(WithoutBad(pPage)).result

C20_Witness ==
    /\ pOut.done
    /\ WithoutBad(pPage) # pPage
    /\ \E it \in PageItems(pPage) : BadItem(it)
    /\ \E it \in PageItems(pPage) :
          \E k \in 1..Len(it.tails) : <<>> \in { n.words : n \in { m \in Range(it.tails[k].nodes) : m.cls = "pred" } }
    /\ EmittedSubjects(pOut.parse.result) # {}

\* C21 (as stated): the entries the client retains stay within a fixed bound:
\* the parsed cache holds at most its effective capacity, and the raw-response
\* cache holds no entry older than its lifetime of RawCacheTtl seconds.
C21_RetainedEntriesBounded ==
    /\ Len(parsedCache) <= Max(1, maxCfg)
    /\ \A i \in 1..Len(rawCache) : now - rawCache[i].ts < RawCacheTtl

\* a step in which a catalog operation returns what it built from a page
\* that lacks the operation's container
CatalogFromBrokenPage(t) ==
    /\ tasks'[t] # tasks[t]
    /\ tasks'[t].pc = "returned"
    /\ tasks'[t].req.op \in {"institutes", "groups"}
    /\ tasks'[t].page # NoPage
    /\ MissingContainer(tasks'[t].req.op, tasks'[t].page)

\* C25 (as stated): a list_institutes or list_groups_by_course call that found
\* the page-level container missing leaves the catalog caches unchanged.
C25_BrokenPageIsNotCached ==
    [][\A t \in Tasks :
          CatalogFromBrokenPage(t) =>
              /\ institutesCache' = institutesCache
              /\ groupsCache' = groupsCache]_vars

\* the tails an item contributes under the resolved parity: every all-week
\* tail and the first tail of that parity
SelectedIdx(it, odd) ==
    LET mine == { k \in 1..Len(it.tails) : it.tails[k].week = Matching(odd) }
    IN  { k \in 1..Len(it.tails) : it.tails[k].week = "all" }
        \cup { k \in mine : \A j \in mine : k <= j }

\* the subjects with a text that a tail holds, counted with repetitions
PredCount(tail) ==
    Cardinality({ j \in 1..Len(tail.nodes) :
                    tail.nodes[j].cls = "pred" /\ tail.nodes[j].words # <<>> })

\* the number of lessons the first k tails of an item are to give
RECURSIVE LiveTailLessons(_, _, _)
LiveTailLessons(it, odd, k) ==
    IF k = 0 THEN 0
    ELSE LiveTailLessons(it, odd, k - 1)
         + (IF k \in SelectedIdx(it, odd) /\ ~IsFree(it.tails[k])
            THEN PredCount(it.tails[k]) ELSE 0)

\* the number of lessons a container's items are to give
RECURSIVE LiveLessons(_, _)
LiveLessons(items, odd) ==
    IF items = <<>> THEN 0
    ELSE (IF BadItem(Head(items)) THEN 0
          ELSE LiveTailLessons(Head(items), odd, Len(Head(items).tails)))
         + LiveLessons(Tail(items), odd)

\* the containers behind the days of a result, in the order of the days
DayLines(nodes) ==
    LET at == SelectSeq([i \in 1..Len(nodes) |-> i],
                        LAMBDA i : nodes[i].tag = "h3" /\ find_lines(nodes, i) # 0)
    IN  [k \in 1..Len(at) |-> nodes[find_lines(nodes, at[k])].items]

DaySubjects(day) == { day.lessons[k].subject : k \in 1..Len(day.lessons) }

\* C22: a selected tail whose whole text is the "free" marker gives no
\* lesson, and the other selected tails of the same item still give theirs:
\* each day has exactly as many lessons as the subjects of its selected
\* tails that are not free, and holds every one of those subjects.
C22_FreeTailContributesNothing ==
    (pOut.done /\ pPage.content) =>
        /\ Len(pOut.parse.result.days) = Len(DayLines(pPage.nodes))
        /\ \A d \in 1..Len(pOut.parse.result.days) :
             /\ Len(pOut.parse.result.days[d].lessons)
                  = LiveLessons(DayLines(pPage.nodes)[d], pOut.parse.result.is_odd_week)
             /\ \A it \in Range(DayLines(pPage.nodes)[d]) :
                  ~BadItem(it) =>
                    \A k \in SelectedIdx(it, pOut.parse.result.is_odd_week) :
                       IF IsFree(it.tails[k])
                       THEN FreeMarker \notin DaySubjects(pOut.parse.result.days[d])
                       ELSE TailSubjects(it.tails[k])
                                \subseteq DaySubjects(pOut.parse.result.days[d])

C22_Witness ==
    /\ pOut.done
    /\ pOut.parse.result.is_odd_week
    /\ \E i \in 1..Len(pPage.nodes) : ItemFree \in Range(pPage.nodes[i].items)
    /\ <<"physics">> \in EmittedSubjects(pOut.parse.result)
    /\ FreeMarker \notin EmittedSubjects(pOut.parse.result)

NoRepeats(names) == \A i, j \in 1..Len(names) : i # j => names[i] # names[j]

ResultLessons(result) ==
    UNION { Range(result.days[i].lessons) : i \in 1..Len(result.days) }

\* C23 (as stated): the teacher field of every emitted lesson holds each
\* teacher name at most once, and is never the empty string.
C23_TeachersListedOnce ==
    pOut.done =>
        \A l \in ResultLessons(pOut.parse.result) :
            l.teacher # <<>> /\ NoRepeats(l.teacher)

\* C24 (as stated): every result get_week_schedule returns derives from an
\* upstream response that arrived no more than the parsed cache's effective
\* TTL before the return.
C24_ReturnedDataWithinTtl ==
    \A t \in WeekTasks :
        tasks[t].pc = "returned" => tasks[t].srcAge <= Max(1, ttlCfg)

\* the step stored user u's choice of a group that was offered under the
\* title the user sent, and closed the flow
GroupChosenBy(u) ==
    /\ last'.user = u
    /\ fsm[u].state = "group"
    /\ \E i \in 1..Len(fsm[u].data.groups) :
          /\ fsm[u].data.groups[i].title = last'.msg.text
          /\ fsm[u].data.groups[i].id = store'[u].group_id
    /\ fsm'[u] = ClearCtx
    /\ \A v \in DOMAIN store \ {u} : store'[v] = store[v]

\* C26: the stored settings change only in the step in which a user in
\* state SetupFlow.group sends the title of an offered group; the stored
\* group_id is then the id of an offered group of that title, the flow state
\* is cleared, and nobody else's settings change.  Every other message
\* leaves the stored settings as they were.
C26_GroupChangesOnlyAtSelection ==
    [][store' # store => \E u \in Users : GroupChosenBy(u)]_vars

C26_Witness ==
    /\ last.handler = "on_setup_group"
    /\ last.msg.text = <<102, 1>>
    /\ store[last.user].set
    /\ store[last.user].group_id = 2001
    /\ fsm[last.user] = ClearCtx

\* C27 (as stated): a report is composed, forwarded and answered with the
\* thank-you message only with a body that is not empty.
C27_NoEmptyReport ==
    last.report.composed => last.report.body # <<>>

\* C28: in state SetupFlow.group the stored group_page stays within
\* 0 .. (n - 1) div 10 for the n offered groups, and every keyboard of
\* groups the handler shows holds at least one group button.
C28_GroupPageInRange ==
    \A u \in Users :
        fsm[u].state = "group" =>
            /\ fsm[u].data.group_page \in 0..((Len(fsm[u].data.groups) - 1) \div 10)
            /\ (last.user = u /\ last.handler \in {"on_setup_course", "on_setup_group"})
                   => last.kb.buttons # <<>>

C28_Witness ==
    \E u \in Users :
        /\ fsm[u].state = "group"
        /\ last.user = u /\ last.msg.text = BTN_PAGE_NEXT
        /\ fsm[u].data.group_page = (Len(fsm[u].data.groups) - 1) \div 10
        /\ fsm[u].data.group_page > 0
        /\ last.kb.buttons # <<>> /\ ~last.kb.next

\* the str a state is known by: the .state of a State, the state itself
\* otherwise
NameOf(state) == IF state.py = "State" THEN state.state ELSE state

RowKey(i) == build_key(StorageKeys[i])

\* the step leaves every row but that of key i alone and keeps the set of rows
OtherRowsKept(i) ==
    /\ DOMAIN fsmContext' = DOMAIN fsmContext
    /\ \A k \in DOMAIN fsmContext \ {RowKey(i)} : fsmContext'[k] = fsmContext[k]

\* C29: on a key that has a row, set_state leaves data_json and set_data
\* leaves state as they were, and neither touches another row; get_state
\* returns the state handed to the last set_state on the key (None before
\* the first) and get_data the data handed to the last set_data ({} before
\* the first), for states that are None, a str or a State and data that
\* json represents.
C29_SetStateAndSetDataIndependent ==
    /\ [][(dbOp'.op = "set_state" /\ dbOp'.existed) =>
              /\ OtherRowsKept(dbOp'.key)
              /\ fsmContext'[RowKey(dbOp'.key)].data_json
                     = fsmContext[RowKey(dbOp'.key)].data_json]_vars
    /\ [][(dbOp'.op = "set_data" /\ dbOp'.existed) =>
              /\ OtherRowsKept(dbOp'.key)
              /\ fsmContext'[RowKey(dbOp'.key)].state
                     = fsmContext[RowKey(dbOp'.key)].state]_vars
    /\ [](dbOp.op = "get_state" =>
              dbOp.state = IF Handed(dbOp.key).state_set
                           THEN NameOf(Handed(dbOp.key).state) ELSE None)
    /\ [](dbOp.op = "get_data" =>
              dbOp.data = IF Handed(dbOp.key).data_set
                          THEN Handed(dbOp.key).data ELSE EmptyDict)

\* get_data returns the data of an earlier set_data after a set_state on
\* the same key came in between
C29_Witness ==
    /\ dbOp.op = "get_data"
    /\ Handed(dbOp.key).data_set /\ Handed(dbOp.key).state_set
    /\ Handed(dbOp.key).by = "set_state"
    /\ Handed(dbOp.key).data # EmptyDict
    /\ dbOp.data = Handed(dbOp.key).data

\* C30: two different StorageKeys never get the same fsm_key from _build_key.
C30_BuildKeyInjective ==
    (fnOut.done /\ fnIn.fn = "_build_key" /\ fnIn.a # fnIn.b) =>
        fnOut.value[1] # fnOut.value[2]

\* C31 (as stated): a connection is out of the pool only while a task is
\* inside cursor() with it: once the context has exited, on any path, the
\* connection it acquired is back in the pool.
C31_EveryConnectionReleased ==
    \A k \in pool.used :
        \E c \in DbTasks : dbTasks[c].pc \in {"cursor", "body", "close"} /\ dbTasks[c].conn = k
====
